---- MODULE Spec2Model ----
(***************************************************************************)
(* Grid trading control plane: execution engine (pending registry with    *)
(* client-id / venue-id keys, expected-cancellations set, WebSocket and   *)
(* REST fill detection), coordinator (fill handler, pause / reset flags,  *)
(* error counter), position monitor (REST failure counter, anomaly        *)
(* detection) and the venue they talk to.                                 *)
(*                                                                         *)
(* An order object is a slot of the sequence `orders`; its client id and  *)
(* its venue id (order_index) are both identified with the slot number,   *)
(* so the engine's dictionary _pending_orders is the pair of sets         *)
(* pendC (slots stored under their client id) and pendV (slots stored     *)
(* under their venue id).  The same holds for _expected_cancellations.    *)
(***************************************************************************)
EXTENDS Integers, FiniteSets, Sequences, TLC

\* ------------------------------------------------------------------ bounds
MaxOrders == 4          \* order objects created in one run
GridCount == 2          \* config.grid_count
MaxRestFailures == 4    \* failed position polls counted in a row
MaxInFlight == 2        \* venue events pushed and not yet handled
ScalpingTakeProfitGrids == 1    \* config.scalping_take_profit_grids

\* ------------------------------------------------------- program constants
MaxErrors == 5                  \* GridCoordinator._max_errors
MaxRetries == 3                 \* cancel_all_orders_with_verification(max_retries=3)
\* position_monitor._rest_query_debounce, in seconds
RestQueryDebounce == 5
\* the clock stops here
MaxTime == 40
\* config.follow_timeout, in seconds
FollowTimeout == 10
\* config.follow_distance, in grids
FollowDistance == 1
\* coordinator._escape_check_interval, in seconds
EscapeCheckInterval == 10
\* engine._ws_timeout_threshold (600 s in the code), shortened to fit MaxTime
WsTimeoutThreshold == 20
\* grid configurations: lower bound, width, interval and increment up to
MaxLower == 2
MaxRange == 5
MaxInterval == 3
MaxIncrement == 2
RestMaxFailures == 3            \* PositionMonitor._rest_max_failures
PositionMaxMultiplier == 10     \* PositionMonitor._position_max_multiplier
OrderAmount == 1                \* config.order_amount (one unit)
ReverseDistance == 1            \* config.reverse_order_grid_distance

Venues == {"backpack", "lighter", "hyperliquid"}
GridTypes == {"long", "short"}
PositionReports == {0, 1, 11}   \* sizes the venue's REST position endpoint may report
Balances == {1, 2}              \* collateral balances the venue may report
Managers == {"capital_protection", "take_profit", "scalping"}

VARIABLES
    venue,            \* config.exchange
    gridType,         \* config.grid_type (Long / Short family)
    followMode,       \* config.is_follow_mode()
    feed,             \* the format of the venue's order events
    orders,           \* every GridOrder object created so far
    pendC, pendV,     \* engine._pending_orders: slots keyed by client id / by venue id
    expC, expV,       \* engine._expected_cancellations: client ids / venue ids
    cancelJobs,       \* cancel_order calls awaiting the venue's answer
    active,           \* state.active_orders
    open,             \* orders resting on the venue
    wsEvents,         \* order events pushed by the venue, not yet handled
    work,             \* keys a REST poll or batch sync found missing, still to be processed
    wsConnected,      \* exchange._ws_connected
    wsEnabled,        \* engine._ws_monitoring_enabled
    batchPc,          \* place_batch_orders: "none", "placed" (3 s wait), "syncing", "done"
    running, paused, resetting, errorCount,   \* coordinator flags
    pauseTask,        \* a pause() task created by _handle_error and not run yet
    isPausedAttr,     \* coordinator.is_paused: "method", or "true" / "false" once assigned over
    emergencyStopped, \* coordinator.is_emergency_stopped
    restFailures,     \* position_monitor._rest_failure_count
    lastPosition,     \* position_monitor._last_position_size
    initialPhase,     \* position_monitor._initial_phase
    position,         \* tracker.current_position
    scalpActive,      \* scalping_manager.is_active()
    tpOrder,          \* the scalping take-profit order: "none" or "open"
    resetPc,          \* where a take-profit handling, scalping exit or reset stands
    last,             \* the last operation and its outcome
    matched,          \* history: the orders the venue has filled
    cancelDone,       \* history: the orders a cancel_order call has returned for
    verifyRound,      \* cancel_all_orders_with_verification: verification rounds done
    resetBy,          \* the entry point of the reset in progress, or "none"
    batchBase,        \* the number of order objects before the last batch
    locked,           \* price_lock_manager.is_locked()
    hcPc,             \* perform_health_check: "idle" or "recheck" (the 3 s wait)
    balance,          \* balance_monitor.collateral_balance (0: no snapshot yet)
    capital,          \* initial_capital of each mode manager (0: not seeded)
    firstSnap,        \* history: the first balance snapshot since the last rebuild
    tasks,            \* the background tasks that have not terminated
    now,              \* time.time(), in seconds
    lastEventQueryTime, \* position_monitor._last_event_query_time
    eventQueries,     \* history: the REST position fetches trigger_event_query issued
    gridCfg,          \* config: lower_price, upper_price, grid_interval, grid_count,
                      \* martingale_increment (0: not set), prices in ticks
    call,             \* the last call of a GridConfig method: argument and result
    lastEscapeCheckTime,  \* coordinator._last_escape_check_time
    priceEscapeStartTime, \* coordinator._price_escape_start_time (0: None)
    beyondSince,      \* history: the first of the unbroken run of checks that found
                      \* the price past the profit-side bound (0: the last one did not)
    escapePrice,      \* the price handed to execute_price_follow_reset
    lastHeartbeat,    \* exchange._last_heartbeat
    lastWsMessageTime, \* engine._last_ws_message_time
    balPc,            \* where the workflow stands that the balance monitor awaits
                      \* beside another entry point's
    balRound          \* the verification rounds of that workflow's cancel loop

vars == << venue, gridType, followMode, feed, orders, pendC, pendV, expC, expV,
           cancelJobs, active, open, wsEvents, work, wsConnected, wsEnabled,
           batchPc, running, paused, resetting, errorCount, pauseTask,
           isPausedAttr, emergencyStopped, restFailures, lastPosition,
           initialPhase, position, scalpActive, tpOrder, resetPc, last,
           matched, cancelDone, verifyRound, resetBy, batchBase, locked,
           hcPc, balance, capital, firstSnap, tasks, now,
           lastEventQueryTime, eventQueries, gridCfg, call,
           lastEscapeCheckTime, priceEscapeStartTime, beyondSince, escapePrice,
           lastHeartbeat, lastWsMessageTime, balPc, balRound >>

configVars == << venue, gridType, followMode, feed >>
monitorVars == << isPausedAttr, emergencyStopped, restFailures, lastPosition,
                  initialPhase >>
wsVars == << wsConnected, wsEnabled >>
flagVars == << running, paused, resetting, errorCount, pauseTask >>
scalpVars == << scalpActive, tpOrder, resetPc >>
histVars == << matched, cancelDone >>
\* the variables of the reset, rebuild and mode machinery
resetVars == << verifyRound, resetBy, batchBase >>
capVars == << balance, capital, firstSnap >>
modeVars == << resetVars, locked, hcPc, capVars >>
extVars == << histVars, modeVars, tasks >>
\* the clock and what is measured against it
geomVars == << gridCfg, call >>
escapeVars == << lastEscapeCheckTime, priceEscapeStartTime, beyondSince,
                 escapePrice >>
clockVars == << now, lastEventQueryTime, eventQueries, geomVars, escapeVars >>
beatVars == << lastHeartbeat, lastWsMessageTime >>
balVars == << balPc, balRound >>
auxVars == << clockVars, beatVars, balVars >>

Slots == 1..MaxOrders
Used == 1..Len(orders)
\* `last` records the outcome of the last handler, monitor or health-checker step;
\* by is the originator of the venue event a socket step handled
Result(act, oid, out) == [act |-> act, oid |-> oid, out |-> out, by |-> "none"]
WsResult(e, out) == [act |-> "ws", oid |-> e.oid, out |-> out, by |-> e.by]
Quiet == Result("none", 0, "none")
\* what a handler invocation meets: create_order raising ("place"), the
\* strategy or the bookkeeping after the placement raising ("price"), and the
\* scalping manager's trigger and its exit condition being reached; tp tells
\* whether place_take_profit_order_with_verification gets its order placed
Faults == {"none", "place", "price"}
HandlerInputs == [fault : Faults, trigger : BOOLEAN, exit : {FALSE}, tp : {TRUE}]
NominalInputs == [fault : {"none"}, trigger : BOOLEAN, exit : {FALSE}, tp : {TRUE}]
QuietInputs == [fault : {"none"}, trigger : {FALSE}, exit : {FALSE}, tp : {TRUE}]
FaultInputs == [fault : Faults, trigger : {FALSE}, exit : {FALSE}, tp : {TRUE}]
ScalpInputs == [fault : {"none"}, trigger : BOOLEAN, exit : BOOLEAN, tp : {TRUE}]
TakeProfitInputs ==
    [fault : {"none"}, trigger : BOOLEAN, exit : {FALSE}, tp : BOOLEAN]

\* ------------------------------------------------------------ GridOrder
Opposite(side) == IF side = "buy" THEN "sell" ELSE "buy"

\* idk tells which id GridOrder.order_id holds: "c" (client id) or "v" (venue id)
NewOrder(grid, side, amount, parent, idk) ==
    [grid |-> grid, side |-> side, amount |-> amount, parent |-> parent,
     idk |-> idk, status |-> "pending"]

\* GridOrder.mark_filled / mark_cancelled on the object itself
MarkStatus(os, o, st) == [os EXCEPT ![o].status = st]

\* the event formats a venue pushes: Backpack dictionaries, Lighter OrderData
\* objects (carrying both ids), Hyperliquid OrderData objects or order lists
FormatsOf(v) ==
    CASE v = "backpack" -> {"dict"}
      [] v = "lighter" -> {"orderdata"}
      [] OTHER -> {"orderdata", "list"}

\* ------------------------------------------------------- engine.place_order
\* the id create_order returns: Lighter in batch mode returns the client id
\* only; every other placement returns the venue's id
PlacedIdKind(batchMode) == IF venue = "lighter" /\ batchMode THEN "c" ELSE "v"

\* ------------------------------------------------------- tracker, strategy
\* fault seeding: a tracker that records buys only
RecordBuysOnly(pos, ord) ==
    IF ord.status = "filled" /\ ord.side = "buy" THEN pos + ord.amount ELSE pos

\* PositionTrackerImpl.record_filled_order
RecordFilledOrder(pos, ord) ==
    IF ord.status # "filled" THEN pos
    ELSE IF ord.side = "buy" THEN pos + ord.amount ELSE pos - ord.amount

\* strategy.calculate_reverse_order: the grid of the reverse order
ReverseGrid(ord) ==
    IF (gridType = "long") = (ord.side = "buy")
    THEN ord.grid + ReverseDistance
    ELSE ord.grid - ReverseDistance

\* the reverse GridOrder built by the fill handler
ReverseOrder(ord, o) ==
    NewOrder(ReverseGrid(ord), Opposite(ord.side), ord.amount, o,
             PlacedIdKind(FALSE))

\* fault seeding: scalping mode that vetoes nothing
AlwaysPlaceReverse(ord) == TRUE

\* GridCoordinator._should_place_reverse_order_in_scalping
ShouldPlaceReverseOrderInScalping(ord) ==
    IF gridType = "long" THEN ord.side = "sell" ELSE ord.side = "buy"

\* fault seeding: a handler without the resetting gate
ResettingGateOff == FALSE

\* the two gates at the head of _on_order_filled
PausedGate == paused
ResettingGate == resetting

\* _handle_error: the new error count, and whether a pause() task is created
ErrorCountAfterError == errorCount + 1
PauseTaskAfterError == pauseTask \/ (errorCount + 1 >= MaxErrors)

\* scalping_manager's take-profit order after a position change
\* (update_take_profit_order_if_needed: cancel the old one, post a new one)
TakeProfitFor(pos) == IF pos # 0 THEN "open" ELSE "none"

\* place_take_profit_order_with_verification after the old order is gone:
\* when none of its attempts gets the order placed it logs the failure and
\* returns False, which neither caller acts on
TakeProfitPlaced(pos, placed) == IF placed THEN TakeProfitFor(pos) ELSE "none"

\* ScalpingOperations.activate: the sell orders of state.active_orders, each
\* handed to engine.cancel_order (the calls run concurrently)
ActivationCancels(os, act) == {x \in act : os[x].side = "sell"}

\* engine.cancel_order up to its await: the id is recorded as expected and
\* the venue is asked to cancel
CancelEvents(S, op, by) ==
    IF wsConnected
    THEN {[kind |-> "cancelled", oid |-> x, by |-> by] : x \in S \cap op}
    ELSE {}

\* the keys of a dictionary in iteration order, as a sequence
SetToSeq(S) ==
    [i \in 1..Cardinality(S) |->
        CHOOSE x \in S : Cardinality({y \in S : y < x}) = i - 1]
KeySeq(S, k) ==
    [i \in 1..Cardinality(S) |-> [k |-> k, oid |-> SetToSeq(S)[i]]]

\* ---------------------------------------------------------- grid geometry
\* GridConfig.__post_init__ for a fixed range: grid_count is the whole number
\* of intervals between the bounds
GridOf(lower, upper, interval, increment) ==
    [lower_price |-> lower, upper_price |-> upper, grid_interval |-> interval,
     grid_count |-> (upper - lower) \div interval,
     martingale_increment |-> increment]

\* _validate: lower < upper, interval > 0, grid_count > 0
GridConfigs ==
    { g \in { GridOf(lo, up, iv, inc) : lo \in 1..MaxLower,
                                         up \in 2..(MaxLower + MaxRange),
                                         iv \in 1..MaxInterval,
                                         inc \in 0..MaxIncrement } :
        /\ g.lower_price < g.upper_price
        /\ g.grid_count > 0 }

NoCall == [fn |-> "none", arg |-> 0, ret |-> 0, src |-> 0]

\* Python's round() of the Decimal n / d, d > 0: to the nearest integer, a
\* tie to the even one
RoundHalfEven(n, d) ==
    LET q == n \div d
        r == n % d
    IN IF 2 * r < d THEN q
       ELSE IF 2 * r > d THEN q + 1
       ELSE IF q % 2 = 0 THEN q ELSE q + 1

Min(a, b) == IF a < b THEN a ELSE b
Max(a, b) == IF a > b THEN a ELSE b

\* get_grid_price
GetGridPrice(i) ==
    IF gridType = "long"
    THEN gridCfg.lower_price + (i - 1) * gridCfg.grid_interval
    ELSE gridCfg.upper_price - (i - 1) * gridCfg.grid_interval

\* fault seeding: every grid type measured from the lower bound
GetGridIndexFromLower(price) ==
    Max(1, Min(RoundHalfEven(price - gridCfg.lower_price, gridCfg.grid_interval) + 1,
               gridCfg.grid_count))

\* get_grid_index_by_price
GetGridIndexByPrice(price) ==
    LET index == IF gridType = "long"
                 THEN RoundHalfEven(price - gridCfg.lower_price,
                                    gridCfg.grid_interval) + 1
                 ELSE RoundHalfEven(gridCfg.upper_price - price,
                                    gridCfg.grid_interval) + 1
    IN Max(1, Min(index, gridCfg.grid_count))

\* get_grid_order_amount
GetGridOrderAmount(i) ==
    IF gridCfg.martingale_increment > 0 THEN
        IF gridType = "long"
        THEN OrderAmount + (gridCfg.grid_count - i) * gridCfg.martingale_increment
        ELSE OrderAmount + (i - 1) * gridCfg.martingale_increment
    ELSE OrderAmount

\* ------------------------------------------------------------- Init
InitWith(follow, grids) ==
    /\ venue \in Venues
    /\ gridType \in GridTypes
    /\ followMode \in follow
    /\ feed \in FormatsOf(venue)
    /\ orders = << >>
    /\ pendC = {} /\ pendV = {} /\ expC = {} /\ expV = {}
    /\ cancelJobs = {}
    /\ active = {}
    /\ open = {}
    /\ wsEvents = {}
    /\ work = << >>
    /\ wsConnected = TRUE
    /\ wsEnabled = TRUE
    /\ batchPc = "none"
    /\ running = FALSE /\ paused = FALSE /\ resetting = FALSE
    /\ errorCount = 0
    /\ pauseTask = FALSE
    /\ isPausedAttr = "method"
    /\ emergencyStopped = FALSE
    /\ restFailures = 0
    /\ lastPosition = 0
    /\ initialPhase = TRUE
    /\ position = 0
    /\ scalpActive = FALSE
    /\ tpOrder = "none"
    /\ resetPc = "idle"
    /\ last = Quiet
    /\ matched = {}
    /\ cancelDone = {}
    /\ verifyRound = 0
    /\ resetBy = "none"
    /\ batchBase = 0
    /\ locked = FALSE
    /\ hcPc = "idle"
    /\ balance = 0
    /\ capital = [m \in Managers |-> 0]
    /\ firstSnap = 0
    /\ tasks = {}
    \* the epoch clock is far past the debounce window when the process starts
    /\ now = Max(RestQueryDebounce, EscapeCheckInterval)
    /\ lastEventQueryTime = 0
    /\ eventQueries = 0
    /\ gridCfg \in grids
    /\ call = NoCall
    /\ lastEscapeCheckTime = 0
    /\ priceEscapeStartTime = 0
    /\ beyondSince = 0
    /\ escapePrice = 0
    /\ lastHeartbeat = now
    /\ lastWsMessageTime = now
    /\ balPc = "idle"
    /\ balRound = 0

\* the grid of GridCount levels one tick apart that the order machinery runs on
UnitGrid == GridOf(1, 1 + GridCount, 1, 0)

InitFor(follow) == InitWith(follow, {UnitGrid})

\* a grid with a fixed price range
Init == InitFor({FALSE})

\* ------------------------------------------------ coordinator: fill handler
\* GridCoordinator._on_order_filled, awaited by the engine for the filled
\* order o.  os, pc, pv and ev are the orders, the pending keys and the
\* venue's event queue as the engine left them before the call.
\* position_monitor.record_order_filled() is a notification that changes
\* nothing modelled here; the call may bring the order objects up to limit.
OnOrderFilledUpTo(os, pc, pv, ev, o, in, limit) ==
    LET ord == os[o]
        pos1 == RecordFilledOrder(position, ord)
        act1 == active \ {o}
        tp1 == IF scalpActive THEN TakeProfitPlaced(pos1, in.tp) ELSE tpOrder
        n == Len(os) + 1
        os2 == Append(os, ReverseOrder(ord, o))
        act2 == act1 \cup {n}
        trig == in.trigger /\ ~scalpActive
        exiting == in.exit /\ ~in.trigger /\ scalpActive
        cs == IF trig THEN ActivationCancels(os2, act2) ELSE {}
    IN
    IF PausedGate \/ ResettingGate THEN
        /\ orders' = os /\ pendC' = pc /\ pendV' = pv /\ wsEvents' = ev
        /\ last' = Result("fill", o, IF PausedGate THEN "dropped_paused"
                                     ELSE "dropped_resetting")
        /\ UNCHANGED << open, active, position, errorCount, pauseTask,
                        scalpActive, tpOrder, expC, expV, cancelJobs, resetPc >>
    ELSE IF scalpActive /\ ~ShouldPlaceReverseOrderInScalping(ord) THEN
        /\ orders' = os /\ pendC' = pc /\ pendV' = pv /\ wsEvents' = ev
        /\ active' = act1 /\ position' = pos1 /\ tpOrder' = tp1
        /\ last' = Result("fill", o, "vetoed")
        /\ UNCHANGED << open, errorCount, pauseTask, scalpActive, expC, expV,
                        cancelJobs, resetPc >>
    ELSE IF in.fault = "place" THEN
        /\ orders' = os /\ pendC' = pc /\ pendV' = pv /\ wsEvents' = ev
        /\ active' = act1 /\ position' = pos1 /\ tpOrder' = tp1
        /\ errorCount' = ErrorCountAfterError
        /\ pauseTask' = PauseTaskAfterError
        /\ last' = Result("fill", o, "error")
        /\ UNCHANGED << open, scalpActive, expC, expV, cancelJobs, resetPc >>
    ELSE IF in.fault = "price" THEN
        /\ n <= limit
        /\ orders' = os2 /\ pendC' = pc /\ pendV' = pv \cup {n}
        /\ wsEvents' = ev
        /\ open' = open \cup {n}
        /\ active' = act2 /\ position' = pos1 /\ tpOrder' = tp1
        /\ errorCount' = ErrorCountAfterError
        /\ pauseTask' = PauseTaskAfterError
        /\ last' = Result("fill", o, "placed_error")
        /\ UNCHANGED << scalpActive, expC, expV, cancelJobs, resetPc >>
    ELSE
        /\ n <= limit
        /\ orders' = os2 /\ pendC' = pc /\ pendV' = pv \cup {n}
        /\ wsEvents' = ev \cup CancelEvents(cs, open \cup {n}, "system")
        /\ open' = (open \cup {n}) \ cs
        /\ active' = act2 /\ position' = pos1
        /\ scalpActive' = ((scalpActive \/ trig) /\ ~exiting)
        /\ resetPc' = IF exiting THEN "deactivate" ELSE resetPc
        /\ tpOrder' = IF trig THEN TakeProfitPlaced(pos1, in.tp) ELSE tp1
        /\ expC' = expC \cup {x \in cs : os2[x].idk = "c"}
        /\ expV' = expV \cup {x \in cs : os2[x].idk = "v"}
        /\ cancelJobs' = cancelJobs \cup
               {[oid |-> x, ok |-> x \in open \cup {n}] : x \in cs}
        /\ errorCount' = 0
        /\ UNCHANGED pauseTask
        /\ last' = Result("fill", o, IF trig THEN "placed_scalping"
                                     ELSE IF exiting THEN "placed_exit"
                                     ELSE "placed")

OnOrderFilled(os, pc, pv, ev, o, in) ==
    OnOrderFilledUpTo(os, pc, pv, ev, o, in, MaxOrders)

\* ---------------------------------------------------------------- startup
InitialSide == IF gridType = "long" THEN "buy" ELSE "sell"

\* the background tasks: the engine's smart monitor and health-check loop,
\* the position and balance monitors, and on a follow grid the coordinator's
\* price-escape monitor
StartedTasks ==
    {"smart_monitor", "health_check", "position_monitor", "balance_monitor"}
    \cup (IF followMode THEN {"price_escape"} ELSE {})

\* the tasks that coordinator.stop() and engine.stop() cancel and await
StopCancels == {"health_check", "position_monitor", "balance_monitor"}

\* GridCoordinator.initialize up to the 3 s wait of place_batch_orders:
\* the position monitor's initial sync (which may fail), then the initial
\* batch, one order per grid
Start ==
    /\ batchPc = "none"
    /\ \E syncOk \in BOOLEAN :
        /\ restFailures' = IF syncOk THEN 0 ELSE restFailures + 1
        /\ isPausedAttr' = IF syncOk THEN "false" ELSE isPausedAttr
    /\ running' = TRUE
    /\ orders' = [g \in 1..GridCount |->
                     NewOrder(g, InitialSide, OrderAmount, 0, PlacedIdKind(TRUE))]
    /\ pendC' = IF PlacedIdKind(TRUE) = "c" THEN 1..GridCount ELSE {}
    /\ pendV' = IF PlacedIdKind(TRUE) = "v" THEN 1..GridCount ELSE {}
    /\ open' = 1..GridCount
    /\ batchPc' = "placed"
    /\ tasks' = StartedTasks
    /\ last' = Quiet
    /\ UNCHANGED << histVars, modeVars, configVars, auxVars, expC, expV, cancelJobs, active, wsEvents, work,
                    wsVars, paused, resetting, errorCount, pauseTask,
                    emergencyStopped, lastPosition, initialPhase, position,
                    scalpVars >>

\* GridEngineImpl._sync_order_status_after_batch up to its loop: the pending
\* keys are matched against the venue's open orders; a key that is neither an
\* open order's id nor its client id counts as filled, and a client id that
\* matches gets the order's venue id as a second key
\* fault seeding: a sync that compares the keys with venue ids only
SyncMissingVenueIdsOnly == KeySeq(pendC, "c") \o KeySeq(pendV \ open, "v")

SyncMissing == KeySeq(pendC \ open, "c") \o KeySeq(pendV \ open, "v")

BatchSync ==
    /\ batchPc = "placed"
    /\ work' = SyncMissing
    /\ pendV' = pendV \cup (pendC \cap open)
    /\ batchPc' = "syncing"
    /\ last' = Quiet
    /\ UNCHANGED << extVars, configVars, auxVars, orders, pendC, expC, expV, cancelJobs, active,
                    open, wsEvents, wsVars, flagVars, monitorVars, position,
                    scalpVars >>

\* the orders of the last batch
BatchOrders == batchBase + 1 .. batchBase + GridCount

\* GridCoordinator.initialize after place_batch_orders returned: the placed
\* orders that are neither filled nor known yet enter state.active_orders
BatchDone ==
    /\ batchPc = "syncing" /\ work = << >>
    /\ active' = active \cup {x \in BatchOrders : orders[x].status # "filled"}
    /\ batchPc' = "done"
    /\ last' = Quiet
    /\ UNCHANGED << extVars, configVars, auxVars, orders, pendC, pendV, expC, expV, cancelJobs,
                    open, wsEvents, work, wsVars, flagVars, monitorVars,
                    position, scalpVars >>

\* ------------------------------------------------------------------ venue
\* the venue matches a resting order; it pushes an event if the socket is up
VenueFill(o) ==
    /\ o \in open
    /\ Cardinality(wsEvents) < MaxInFlight
    /\ open' = open \ {o}
    /\ wsEvents' = IF wsConnected
                   THEN wsEvents \cup {[kind |-> "filled", oid |-> o, by |-> "venue"]}
                   ELSE wsEvents
    /\ matched' = matched \cup {o}
    /\ last' = Quiet
    /\ UNCHANGED << tasks, cancelDone, modeVars, configVars, auxVars, orders, pendC, pendV, expC, expV, cancelJobs,
                    active, work, wsVars, batchPc, flagVars, monitorVars,
                    position, scalpVars >>

\* the account's owner cancels a resting order by hand on the venue
UserCancel(o) ==
    /\ o \in open
    /\ Cardinality(wsEvents) < MaxInFlight
    /\ open' = open \ {o}
    /\ wsEvents' = wsEvents \cup CancelEvents({o}, open, "user")
    /\ last' = Quiet
    /\ UNCHANGED << extVars, configVars, auxVars, orders, pendC, pendV, expC, expV, cancelJobs,
                    active, work, wsVars, batchPc, flagVars, monitorVars,
                    position, scalpVars >>

\* the socket drops; events are no longer pushed
WsDisconnect ==
    /\ wsConnected
    /\ wsConnected' = FALSE
    /\ last' = Quiet
    /\ UNCHANGED << extVars, configVars, auxVars, orders, pendC, pendV, expC, expV, cancelJobs,
                    active, open, wsEvents, work, wsEnabled, batchPc, flagVars,
                    monitorVars, position, scalpVars >>

\* ------------------------------------------------- engine: socket monitoring
\* _smart_monitor_loop, WebSocket branch: a dropped connection (or, except on
\* Lighter, a heartbeat older than the threshold) switches to REST polling
MonitorSwitchToRest ==
    /\ batchPc = "done" /\ wsEnabled
    /\ \/ ~wsConnected
       \/ venue # "lighter"
    /\ wsEnabled' = FALSE
    /\ last' = Quiet
    /\ UNCHANGED << extVars, configVars, auxVars, orders, pendC, pendV, expC, expV, cancelJobs,
                    active, open, wsEvents, work, wsConnected, batchPc,
                    flagVars, monitorVars, position, scalpVars >>

\* _try_restore_websocket: the subscription succeeds
TryRestoreWebsocket ==
    /\ batchPc = "done" /\ ~wsEnabled
    /\ wsEnabled' = TRUE /\ wsConnected' = TRUE
    /\ lastWsMessageTime' = now
    /\ last' = Quiet
    /\ UNCHANGED << extVars, configVars, clockVars, lastHeartbeat, balVars, orders, pendC, pendV, expC, expV, cancelJobs,
                    active, open, wsEvents, work, batchPc, flagVars,
                    monitorVars, position, scalpVars >>

\* _check_pending_orders: every pending key that is not the id of an open
\* order (a client id never is) is taken as filled
PollMissing ==
    {[k |-> "c", oid |-> x] : x \in pendC}
        \cup {[k |-> "v", oid |-> x] : x \in pendV \ open}

\* one turn of the loop of _check_pending_orders: mark the order filled,
\* delete the key, await the coordinator's callback.  The keys the loop has
\* not reached yet are those the next turn finds: a key that is missing from
\* the venue's open orders stays missing.
RestPollUpTo(in, limit) ==
    /\ batchPc = "done" /\ ~wsEnabled /\ work = << >>
    /\ \E w \in PollMissing :
          OnOrderFilledUpTo(MarkStatus(orders, w.oid, "filled"),
                            IF w.k = "c" THEN pendC \ {w.oid} ELSE pendC,
                            IF w.k = "v" THEN pendV \ {w.oid} ELSE pendV,
                            wsEvents, w.oid, in, limit)
    /\ UNCHANGED << extVars, configVars, auxVars, work, wsVars, batchPc, running, paused,
                    resetting, monitorVars >>

RestPoll(in) == RestPollUpTo(in, MaxOrders)

\* ------------------------------------------------- engine: fill detection
\* one turn of the loop of _sync_order_status_after_batch: a key that is
\* still pending is deleted, the order marked filled and the coordinator's
\* callback awaited; a key that is gone is skipped
FillLoopStep(in) ==
    /\ work # << >>
    /\ LET w == Head(work)
           o == w.oid
           present == IF w.k = "c" THEN o \in pendC ELSE o \in pendV
           pc == IF w.k = "c" THEN pendC \ {o} ELSE pendC
           pv == IF w.k = "v" THEN pendV \ {o} ELSE pendV
       IN
       /\ work' = Tail(work)
       /\ IF ~present THEN
              /\ last' = Quiet
              /\ UNCHANGED << orders, pendC, pendV, expC, expV, cancelJobs,
                              active, open, wsEvents, errorCount, pauseTask,
                              position, scalpVars >>
          ELSE OnOrderFilled(MarkStatus(orders, o, "filled"), pc, pv,
                             wsEvents, o, in)
    /\ UNCHANGED << extVars, configVars, auxVars, wsVars, batchPc, running, paused,
                    resetting, monitorVars >>

\* the pending order an event of the given feed is matched to: OrderData
\* events are looked up by client id, then by venue id; lists and Backpack
\* dictionaries by venue id only
EventFound(o) ==
    IF feed = "orderdata" THEN o \in pendC \/ o \in pendV ELSE o \in pendV

\* fault seeding: an engine that takes no cancellation as expected
NothingExpected(o) == FALSE

\* is the cancelled order's id one the engine recorded as its own cancel?
IsExpectedCancellation(o) == o \in expV

\* the order the Backpack branch re-posts for a cancelled one
HealOrder(ord) == NewOrder(ord.grid, ord.side, ord.amount, 0, PlacedIdKind(FALSE))

\* does the branch of _on_order_update for this feed re-post after a
\* cancellation it did not expect?
RepostsAfterCancel == feed = "dict"

\* GridEngineImpl._on_order_update: one event from the venue's user stream
WsOrderUpdate(e, in) ==
    /\ e \in wsEvents
    /\ LET o == e.oid
           ev == wsEvents \ {e}
           byClient == feed = "orderdata" /\ o \in pendC
           n == Len(orders) + 1
       IN
       IF ~EventFound(o) \/ (feed = "list" /\ e.kind # "filled") THEN
           /\ wsEvents' = ev
           /\ last' = WsResult(e, "ignored")
           /\ UNCHANGED << orders, pendC, pendV, expC, expV, cancelJobs, active,
                           open, errorCount, pauseTask, position, scalpVars >>
       ELSE IF e.kind = "filled" THEN
           OnOrderFilled(MarkStatus(orders, o, "filled"),
                         IF byClient THEN pendC \ {o} ELSE pendC,
                         IF byClient THEN pendV ELSE pendV \ {o},
                         ev, o, in)
       ELSE IF IsExpectedCancellation(o) THEN
           /\ wsEvents' = ev
           /\ pendV' = pendV \ {o}
           /\ expV' = expV \ {o}
           /\ last' = WsResult(e, "swallowed")
           /\ UNCHANGED << orders, pendC, expC, cancelJobs, active, open,
                           errorCount, pauseTask, position, scalpVars >>
       ELSE IF ~RepostsAfterCancel THEN
           /\ wsEvents' = ev
           /\ pendV' = pendV \ {o}
           /\ last' = WsResult(e, "cancel_logged")
           /\ UNCHANGED << orders, pendC, expC, expV, cancelJobs, active, open,
                           errorCount, pauseTask, position, scalpVars >>
       ELSE
           /\ wsEvents' = ev
           /\ \E accepted \in BOOLEAN :
                IF accepted THEN
                    /\ n <= MaxOrders
                    /\ orders' = Append(orders, HealOrder(orders[o]))
                    /\ pendV' = (pendV \ {o}) \cup {n}
                    /\ open' = open \cup {n}
                    /\ last' = WsResult(e, "reposted")
                ELSE
                    /\ pendV' = pendV \ {o}
                    /\ last' = WsResult(e, "repost_failed")
                    /\ UNCHANGED << orders, open >>
           /\ UNCHANGED << pendC, expC, expV, cancelJobs, active, errorCount,
                           pauseTask, position, scalpVars >>
    /\ lastWsMessageTime' = now
    /\ UNCHANGED << extVars, configVars, clockVars, lastHeartbeat, balVars, work, wsVars,
                    batchPc, running, paused, resetting, monitorVars >>

\* engine.cancel_order after its await, then state.remove_order by the caller:
\* if the venue cancelled the order and its key is still pending, the order
\* is marked cancelled and every key of the object is removed
CancelOrderReturn(j) ==
    /\ j \in cancelJobs
    /\ LET o == j.oid
           keyed == IF orders[o].idk = "c" THEN o \in pendC ELSE o \in pendV
       IN
       /\ cancelJobs' = cancelJobs \ {j}
       /\ IF j.ok /\ keyed
          THEN /\ orders' = MarkStatus(orders, o, "cancelled")
               /\ pendC' = pendC \ {o}
               /\ pendV' = pendV \ {o}
          ELSE UNCHANGED << orders, pendC, pendV >>
       /\ active' = active \ {o}
       /\ cancelDone' = cancelDone \cup {o}
       /\ last' = Quiet
    /\ UNCHANGED << tasks, matched, modeVars, configVars, auxVars, expC, expV, open, wsEvents, work, wsVars,
                    batchPc, flagVars, monitorVars, position, scalpVars >>

\* a caller that cancelled order o before (a retry round of
\* cancel_orders_by_filter_with_verification, or any other holder of the id)
\* calls engine.cancel_order for it again: up to the await the id is recorded
\* as expected; the venue has nothing left to cancel
CancelOrderAgain(o) ==
    /\ o \in cancelDone /\ o \notin open
    /\ \A j \in cancelJobs : j.oid # o
    /\ expC' = IF orders[o].idk = "c" THEN expC \cup {o} ELSE expC
    /\ expV' = IF orders[o].idk = "v" THEN expV \cup {o} ELSE expV
    /\ cancelJobs' = cancelJobs \cup {[oid |-> o, ok |-> FALSE]}
    /\ last' = Result("cancel", o, "again")
    /\ UNCHANGED << extVars, configVars, auxVars, orders, pendC, pendV, active, open,
                    wsEvents, work, wsVars, batchPc, flagVars, monitorVars,
                    position, scalpVars >>

\* ------------------------------------------------- verified cancel-all
\* engine.cancel_all_orders: every pending key is recorded as expected and
\* the venue is asked to cancel everything; when the venue does, the pending
\* orders are marked cancelled and the registry is emptied; when the venue's
\* call raises, the registry stays as it is
EngineCancelAll(venueOk) ==
    /\ expC' = expC \cup pendC
    /\ expV' = expV \cup pendV
    /\ IF venueOk THEN
           /\ wsEvents' = wsEvents \cup CancelEvents(open, open, "system")
           /\ open' = {}
           /\ tpOrder' = "none"
           /\ orders' = [x \in DOMAIN orders |->
                            IF x \in pendC \cup pendV
                            THEN [orders[x] EXCEPT !.status = "cancelled"]
                            ELSE orders[x]]
           /\ pendC' = {} /\ pendV' = {}
       ELSE UNCHANGED << wsEvents, open, tpOrder, orders, pendC, pendV >>

\* verifier.get_open_orders_count as the verification loop reads it: the
\* orders resting on the venue, or a negative number when the fetch fails
OpenOrdersCount(fetchOk) ==
    IF fetchOk
    THEN Cardinality(open) + (IF tpOrder = "open" THEN 1 ELSE 0)
    ELSE -1

\* fault seeding: a verification that takes a failed fetch as success
CancelVerifiedOrUnknown(count) == count <= 0

\* the verification loop's test of one round's count
CancelVerified(count) == count = 0

\* one round of the loop of cancel_all_orders_with_verification: verified,
\* given up (the count cannot be fetched, or the last round still finds
\* orders), or another cancel_all_orders and another round
VerifyOutcomeAt(count, round) ==
    IF CancelVerified(count) THEN "verified"
    ELSE IF count < 0 \/ round + 1 >= MaxRetries THEN "aborted"
    ELSE "retry"
VerifyOutcome(count) == VerifyOutcomeAt(count, verifyRound)

\* strategy.initialize and engine.place_batch_orders up to the 3 s wait: a
\* fresh batch, one order per grid
PlaceBatch ==
    LET n == Len(orders)
        fresh == n + 1 .. n + GridCount
    IN
    /\ n <= MaxOrders
    /\ orders' = orders \o [g \in 1..GridCount |->
                     NewOrder(g, InitialSide, OrderAmount, 0, PlacedIdKind(TRUE))]
    /\ pendC' = IF PlacedIdKind(TRUE) = "c" THEN pendC \cup fresh ELSE pendC
    /\ pendV' = IF PlacedIdKind(TRUE) = "v" THEN pendV \cup fresh ELSE pendV
    /\ open' = open \cup fresh
    /\ batchPc' = "placed"
    /\ batchBase' = n

\* ------------------------------------------------------ scalping exit
\* ScalpingOperations.deactivate after scalping_manager.deactivate(): the
\* first engine.cancel_all_orders of cancel_all_orders_with_verification
DeactivateCancelAll(venueOk) ==
    /\ resetPc = "deactivate"
    /\ EngineCancelAll(venueOk)
    /\ resetPc' = "deact_verify"
    /\ verifyRound' = 0
    /\ last' = Quiet
    /\ UNCHANGED << tasks, histVars, resetBy, batchBase, locked, hcPc, capVars,
                    configVars, auxVars, cancelJobs, active, work, wsVars, batchPc,
                    flagVars, monitorVars, position, scalpActive >>

\* one verification round of deactivate's cancel-all, and what deactivate
\* does with the result: only a verified cancel-all is followed by the fresh
\* batch; after that the fill handler that called deactivate finishes
DeactivateVerify(fetchOk, venueOk) ==
    /\ resetPc = "deact_verify"
    /\ verifyRound' = verifyRound + 1
    /\ LET out == VerifyOutcome(OpenOrdersCount(fetchOk)) IN
       CASE out = "verified" ->
               /\ PlaceBatch
               /\ resetPc' = "idle"
               /\ errorCount' = 0
               /\ last' = Result("deactivate", 0, "rebuilt")
               /\ UNCHANGED << expC, expV, wsEvents, tpOrder >>
         [] out = "aborted" ->
               /\ resetPc' = "idle"
               /\ errorCount' = 0
               /\ last' = Result("deactivate", 0, "aborted")
               /\ UNCHANGED << orders, pendC, pendV, open, batchPc, batchBase,
                               expC, expV, wsEvents, tpOrder >>
         [] OTHER ->
               /\ EngineCancelAll(venueOk)
               /\ last' = Result("deactivate", 0, "retry")
               /\ UNCHANGED << resetPc, errorCount, batchPc, batchBase >>
    /\ UNCHANGED << tasks, histVars, resetBy, locked, hcPc, capVars, configVars, auxVars,
                    cancelJobs, active, work, wsVars, running, paused,
                    resetting, pauseTask, monitorVars, position, scalpActive >>

\* ------------------------------------------------------- reset workflow
\* fault seeding: every grid taken for a follow grid
IsFollowModeAlways == TRUE

\* config.is_follow_mode()
IsFollowMode == followMode

\* handle_take_profit_filled after the sleep, for a grid in follow mode: the
\* generic reset workflow starts with capital re-initialization asked for
\* (steps 1 and 2: the resetting flag, the mode managers deactivated)
TakeProfitReset ==
    /\ resetPc = "tp_wait" /\ IsFollowMode
    /\ resetting' = TRUE
    /\ scalpActive' = FALSE
    /\ resetPc' = "reset"
    /\ resetBy' = "scalping_tp"
    /\ last' = Result("reset", 0, "started")
    /\ UNCHANGED << tasks, histVars, verifyRound, batchBase, locked, hcPc, capVars,
                    configVars, auxVars, orders, pendC, pendV, expC, expV, cancelJobs,
                    active, open, wsEvents, work, wsVars, batchPc, running,
                    paused, errorCount, pauseTask, monitorVars, position,
                    tpOrder >>

\* _initialize_managers_capital: a manager without a capital is seeded from
\* the snapshot
InitializeManagersCapital(b) ==
    [m \in Managers |-> IF capital[m] = 0 THEN b ELSE capital[m]]

\* take_profit_manager.check_take_profit_condition: the collateral has grown
\* past the manager's capital by the configured share
TakeProfitReached(cap, b) == cap > 0 /\ b > cap

\* BalanceMonitor.update_balance from the monitor's loop: the snapshot is
\* stored, managers without a capital are seeded, and a reached take-profit
\* target starts the reset workflow (one workflow runs at a time)
UpdateBalance(b) ==
    /\ running /\ (batchPc = "done" \/ batchBase > 0)
    /\ resetBy # "take_profit"
    /\ balance' = b
    /\ capital' = InitializeManagersCapital(b)
    /\ IF TakeProfitReached(capital'["take_profit"], b) /\ resetPc = "idle"
       THEN /\ resetting' = TRUE
            /\ scalpActive' = FALSE
            /\ resetPc' = "reset"
            /\ resetBy' = "take_profit"
            /\ last' = Result("reset", 0, "started")
       ELSE /\ last' = Quiet
            /\ UNCHANGED << resetting, scalpActive, resetPc, resetBy >>
    /\ UNCHANGED << tasks, histVars, verifyRound, batchBase, locked, hcPc, firstSnap,
                    configVars, auxVars, orders, pendC, pendV, expC, expV, cancelJobs,
                    active, open, wsEvents, work, wsVars, batchPc, running,
                    paused, errorCount, pauseTask, monitorVars, position,
                    tpOrder >>

\* step 3 of the workflow: the first engine.cancel_all_orders of the
\* verified cancel loop
ResetCancelAll(venueOk) ==
    /\ resetPc = "reset"
    /\ EngineCancelAll(venueOk)
    /\ resetPc' = "reset_verify"
    /\ verifyRound' = 0
    /\ last' = Quiet
    /\ UNCHANGED << tasks, histVars, resetBy, batchBase, locked, hcPc, capVars,
                    configVars, auxVars, cancelJobs, active, work, wsVars, batchPc,
                    flagVars, monitorVars, position, scalpActive >>

\* step 3, one verification round: verified, the workflow goes on; given up,
\* the workflow aborts and the resetting flag is released
ResetVerify(fetchOk, venueOk) ==
    /\ resetPc = "reset_verify"
    /\ verifyRound' = verifyRound + 1
    /\ LET out == VerifyOutcome(OpenOrdersCount(fetchOk)) IN
       CASE out = "verified" ->
               /\ resetPc' = "cleared"
               /\ last' = Result("reset", 0, "cleared")
               /\ UNCHANGED << orders, pendC, pendV, open, expC, expV,
                               wsEvents, tpOrder, resetting, resetBy >>
         [] out = "aborted" ->
               /\ resetPc' = "idle"
               /\ resetting' = FALSE
               /\ resetBy' = "none"
               /\ last' = Result("reset", 0, "aborted")
               /\ UNCHANGED << orders, pendC, pendV, open, expC, expV,
                               wsEvents, tpOrder >>
         [] OTHER ->
               /\ EngineCancelAll(venueOk)
               /\ last' = Result("reset", 0, "retry")
               /\ UNCHANGED << resetPc, resetting, resetBy >>
    /\ UNCHANGED << tasks, histVars, batchBase, locked, hcPc, capVars, configVars, auxVars,
                    cancelJobs, active, work, wsVars, batchPc, running, paused,
                    errorCount, pauseTask, monitorVars, position, scalpActive >>

\* update_price_range_for_follow_mode without price lock and offset: the
\* price becomes the upper bound of a Long grid, the lower bound of a Short
\* one, and the other bound lies grid_count intervals away
FollowRange(price) ==
    IF gridType = "long"
    THEN [gridCfg EXCEPT !.upper_price = price,
                         !.lower_price = price - gridCfg.grid_count * gridCfg.grid_interval]
    ELSE [gridCfg EXCEPT !.lower_price = price,
                         !.upper_price = price + gridCfg.grid_count * gridCfg.grid_interval]

\* steps 4 to 7: the position is closed, the range of a grid that followed
\* the price out is set from that price (the scalping reset of a follow
\* grid meets the price it started from), tracker and active-order registry
\* are reset, and the fresh initial batch is submitted
ResetRebuild ==
    /\ resetPc = "cleared"
    /\ PlaceBatch
    /\ position' = 0
    /\ active' = {}
    /\ firstSnap' = 0
    /\ resetPc' = "rebuilt"
    /\ gridCfg' = IF resetBy = "price_follow" THEN FollowRange(escapePrice)
                  ELSE gridCfg
    /\ last' = Result("reset", 0, "rebuilt")
    /\ UNCHANGED << tasks, histVars, verifyRound, resetBy, locked, hcPc, balance,
                    capital, configVars, now, lastEventQueryTime, eventQueries,
                    call, escapeVars, beatVars, balVars, expC, expV, cancelJobs, wsEvents,
                    work, wsVars, flagVars, monitorVars, scalpActive, tpOrder >>

\* fault seeding: a re-initialization that, like the first seeding, leaves a
\* manager that has a capital alone
ReseedCapitalIfUnset(b) == InitializeManagersCapital(b)

\* initialize_capital(new_capital, is_reinit=True) on the three managers
ReseedCapital(b) == [m \in Managers |-> b]

\* steps 8 and 9: the workflow takes the next balance snapshot, seeds every
\* manager from it and releases the resetting flag; the reset started by the
\* balance monitor is complete, the take-profit handler has its own last step
ResetSeed(b) ==
    /\ resetPc = "rebuilt" /\ batchPc = "done"
    /\ balance' = b
    /\ firstSnap' = b
    /\ capital' = ReseedCapital(b)
    /\ resetting' = FALSE
    /\ IF resetBy \in {"take_profit", "price_follow"}
       THEN /\ resetPc' = "idle"
            /\ resetBy' = "none"
            /\ last' = Result("reset", 0, "completed")
       ELSE /\ resetPc' = "seeded"
            /\ last' = Result("reset", 0, "seeded")
            /\ UNCHANGED resetBy
    /\ UNCHANGED << tasks, histVars, verifyRound, batchBase, locked, hcPc, configVars, auxVars,
                    orders, pendC, pendV, expC, expV, cancelJobs, active, open,
                    wsEvents, work, wsVars, batchPc, running, paused,
                    errorCount, pauseTask, monitorVars, position, scalpActive,
                    tpOrder >>

\* handle_take_profit_filled after the workflow: update_balance (a failed
\* fetch leaves the snapshot it had; a snapshot past the take-profit target
\* starts the workflow again from inside update_balance), then every manager
\* is seeded from the snapshot held and the resetting flag is released
TakeProfitReseed(fetchOk, b) ==
    /\ resetPc = "seeded"
    /\ balance' = IF fetchOk THEN b ELSE balance
    /\ IF fetchOk /\ TakeProfitReached(InitializeManagersCapital(b)["take_profit"], b)
       THEN /\ resetting' = TRUE
            /\ resetPc' = "reset"
            /\ last' = Result("reset", 0, "started")
            /\ UNCHANGED capital
       ELSE /\ capital' = ReseedCapital(balance')
            /\ resetting' = FALSE
            /\ resetPc' = "idle"
            /\ last' = Result("reset", 0, "reseeded")
    /\ resetBy' = IF resetPc' = "idle" THEN "none" ELSE resetBy
    /\ UNCHANGED << tasks, histVars, verifyRound, batchBase, locked, hcPc, firstSnap,
                    configVars, auxVars, orders, pendC, pendV, expC, expV, cancelJobs,
                    active, open, wsEvents, work, wsVars, batchPc, running,
                    paused, errorCount, pauseTask, monitorVars, position,
                    scalpActive, tpOrder >>

\* ------------------------------------------------------------- price lock
\* PriceLockManager arming: the price has reached the threshold
PriceLockArm ==
    /\ running /\ ~locked
    /\ locked' = TRUE
    /\ last' = Quiet
    /\ UNCHANGED << tasks, histVars, resetVars, hcPc, capVars, configVars, auxVars, orders, pendC, pendV,
                    expC, expV, cancelJobs, active, open, wsEvents, work,
                    wsVars, batchPc, flagVars, monitorVars, position,
                    scalpVars >>

\* _price_escape_monitor: the price is back inside the corridor and the
\* unlock condition holds
PriceLockRelease ==
    /\ running /\ ~paused /\ locked
    /\ locked' = FALSE
    /\ last' = Quiet
    /\ UNCHANGED << tasks, histVars, resetVars, hcPc, capVars, configVars, auxVars, orders, pendC, pendV,
                    expC, expV, cancelJobs, active, open, wsEvents, work,
                    wsVars, batchPc, flagVars, monitorVars, position,
                    scalpVars >>

\* ------------------------------------------------- coordinator: pause, resume
\* GridCoordinator.pause, called by the operator
Pause ==
    /\ running /\ ~paused
    /\ paused' = TRUE
    /\ last' = Quiet
    /\ UNCHANGED << extVars, configVars, auxVars, orders, pendC, pendV, expC, expV, cancelJobs,
                    active, open, wsEvents, work, wsVars, batchPc, running,
                    resetting, errorCount, pauseTask, monitorVars, position,
                    scalpVars >>

\* the pause() task that _handle_error created gets its turn
RunPauseTask ==
    /\ pauseTask
    /\ pauseTask' = FALSE
    /\ paused' = TRUE
    /\ last' = Result("pause", 0, "auto")
    /\ UNCHANGED << extVars, configVars, auxVars, orders, pendC, pendV, expC, expV, cancelJobs,
                    active, open, wsEvents, work, wsVars, batchPc, running,
                    resetting, errorCount, monitorVars, position, scalpVars >>

\* GridCoordinator.resume, called by the operator
Resume ==
    /\ paused
    /\ paused' = FALSE
    /\ errorCount' = 0
    /\ last' = Quiet
    /\ UNCHANGED << extVars, configVars, auxVars, orders, pendC, pendV, expC, expV, cancelJobs,
                    active, open, wsEvents, work, wsVars, batchPc, running,
                    resetting, pauseTask, monitorVars, position, scalpVars >>

\* ------------------------------------------------------- position monitor
\* Python's truth value of coordinator.is_paused: the bound method is truthy
AttrTruthy(a) == a = "method" \/ a = "true"

\* _check_position_anomaly: positions below one order_amount count as zero
Normalized(p) == IF p < OrderAmount /\ -p < OrderAmount THEN 0 ELSE p
Abs(p) == IF p < 0 THEN -p ELSE p

\* _check_position_anomaly's emergency test, once the initial phase is over
IsAnomaly(prev, new) ==
    /\ Normalized(prev) # 0
    /\ Abs(Normalized(new)) > Abs(Normalized(prev)) * PositionMaxMultiplier

\* _query_and_update_position succeeding with the reported size; phaseOver
\* tells whether the initial phase's 60 s have passed
PollSuccess(new, phaseOver) ==
    LET checked == new # 0 /\ (~initialPhase \/ phaseOver)
        anomaly == checked /\ IsAnomaly(lastPosition, new)
    IN
    /\ initialPhase' = IF new # 0 /\ phaseOver THEN FALSE ELSE initialPhase
    /\ emergencyStopped' = (emergencyStopped \/ anomaly)
    /\ position' = IF new = 0 /\ lastPosition = 0 THEN position ELSE new
    /\ lastPosition' = new
    /\ restFailures' = 0
    /\ isPausedAttr' = IF anomaly \/ AttrTruthy(isPausedAttr) THEN "false"
                       ELSE isPausedAttr
    /\ last' = Result("position_poll", 0, IF anomaly THEN "anomaly" ELSE "ok")

\* _query_and_update_position failing or timing out, then _handle_rest_failure
PollFailure ==
    /\ restFailures < MaxRestFailures
    /\ restFailures' = restFailures + 1
    /\ isPausedAttr' = IF restFailures + 1 >= RestMaxFailures
                          /\ ~AttrTruthy(isPausedAttr)
                       THEN "true" ELSE isPausedAttr
    /\ last' = Result("position_poll", 0, "failed")
    /\ UNCHANGED << emergencyStopped, lastPosition, initialPhase, position >>

\* one turn of _rest_position_query_loop
PollPosition ==
    /\ running
    /\ \/ \E new \in PositionReports, phaseOver \in BOOLEAN :
              PollSuccess(new, phaseOver)
       \/ PollFailure
    /\ UNCHANGED << extVars, configVars, auxVars, orders, pendC, pendV, expC, expV, cancelJobs,
                    active, open, wsEvents, work, wsVars, batchPc, flagVars,
                    scalpVars >>

\* ------------------------------------------------ scalping take-profit fill
\* the take-profit order fills and the fill reaches _on_order_filled: past
\* the gates the tracker records the closing fill and
\* handle_take_profit_filled sets the resetting flag and sleeps 2 s
TakeProfitFilled ==
    /\ tpOrder = "open"
    /\ tpOrder' = "none"
    /\ IF PausedGate \/ ResettingGate THEN
           /\ last' = Result("fill", 0, IF PausedGate THEN "dropped_paused"
                                        ELSE "dropped_resetting")
           /\ UNCHANGED << position, resetting, resetPc >>
       ELSE
           /\ position' = 0
           /\ resetting' = TRUE
           /\ resetPc' = "tp_wait"
           /\ last' = Result("fill", 0, "tp_reset")
    /\ UNCHANGED << extVars, configVars, auxVars, orders, pendC, pendV, expC, expV, cancelJobs,
                    active, open, wsEvents, work, wsVars, batchPc, running,
                    paused, errorCount, pauseTask, monitorVars, scalpActive >>

\* handle_take_profit_filled after the sleep, for a grid that is not in
\* follow mode: coordinator.stop() (the monitors stop, engine.cancel_all_orders
\* records every pending key as expected, cancels on the venue and empties
\* the pending registry), then the resetting flag is released
TakeProfitStop ==
    /\ resetPc = "tp_wait" /\ ~IsFollowMode
    /\ running' = FALSE /\ paused' = FALSE
    /\ expC' = expC \cup pendC
    /\ expV' = expV \cup pendV
    /\ wsEvents' = wsEvents \cup CancelEvents(open, open, "system")
    /\ open' = {}
    /\ orders' = [x \in Used |->
                     IF x \in pendC \cup pendV
                     THEN [orders[x] EXCEPT !.status = "cancelled"]
                     ELSE orders[x]]
    /\ pendC' = {} /\ pendV' = {}
    /\ resetting' = FALSE
    /\ resetPc' = "idle"
    /\ tasks' = tasks \ StopCancels
    /\ last' = Result("stop", 0, "tp_filled")
    /\ UNCHANGED << histVars, modeVars, configVars, auxVars, cancelJobs, active, work, wsVars, batchPc,
                    errorCount, pauseTask, monitorVars, position, scalpActive,
                    tpOrder >>

\* ----------------------------------------------------------- health checker
GridsOf(S, side) == {orders[x].grid : x \in {y \in S : orders[y].side = side}}
SetMax(S) == CHOOSE m \in S : \A y \in S : y <= m
SetMin(S) == CHOOSE m \in S : \A y \in S : m <= y

\* _determine_extended_range: a Long grid with sell orders (a Short grid with
\* buy orders) extends by reverse_order_grid_distance
Extended(S) ==
    IF gridType = "long" THEN GridsOf(S, "sell") # {} ELSE GridsOf(S, "buy") # {}
MaxGrid(S) == IF Extended(S) THEN GridCount + ReverseDistance ELSE GridCount

\* _diagnose_problem_orders: all but the first order at a price, and the
\* orders outside the theoretical range
ProblemOrders(S) ==
    {x \in S : \E y \in S : y < x /\ orders[y].grid = orders[x].grid}
    \cup {x \in S : orders[x].grid < 1 \/ orders[x].grid > MaxGrid(S)}

\* _evaluate_grid_coverage: grids of the range (fixed before the cleanup from
\* the orders S0) that the remaining orders S1 neither cover nor leave as the
\* profit gap between the highest buy and the lowest sell
MissingGrids(S0, S1) ==
    LET covered == {orders[x].grid : x \in S1} \cap (1..MaxGrid(S0))
        buys == GridsOf(S1, "buy")
        sells == GridsOf(S1, "sell")
        gap == IF Extended(S0) /\ buys # {} /\ sells # {}
               THEN {g \in 1..MaxGrid(S0) : SetMax(buys) < g /\ g < SetMin(sells)}
               ELSE {}
    IN ((1..MaxGrid(S0)) \ covered) \ gap

\* _fill_missing_grids: a grid priced below the current price gets a buy, one
\* above it a sell; cur is the number of grid prices below the current price
\* on a Long grid, above it on a Short grid
RefillSide(g, cur) ==
    IF gridType = "long"
    THEN (IF g <= cur THEN "buy" ELSE "sell")
    ELSE (IF g <= cur THEN "sell" ELSE "buy")

\* where the current price may lie: the number of grid prices on the order
\* side of it
CurrentLevels == 0..GridCount + ReverseDistance

\* does perform_health_check remediate in the coordinator's present state?
HealthCheckRemediates == ~scalpActive

\* OrderHealthChecker.perform_health_check: cleanup of problem orders
\* (_clean_problem_orders cancels on the venue directly and records the ids as
\* expected), refill of missing grids when fewer than grid_count orders rest,
\* and engine._sync_orders_from_exchange with the final open orders; the pass
\* may bring the order objects up to limit
HealthCheckBodyUpTo(cur, remediates, limit) ==
       LET S0 == open
           bad == IF remediates THEN ProblemOrders(S0) ELSE {}
           S1 == S0 \ bad
           miss == IF remediates /\ Cardinality(S0) < GridCount
                   THEN MissingGrids(S0, S1) ELSE {}
           k == Cardinality(miss)
           n == Len(orders)
           fresh == [i \in 1..k |->
                       NewOrder(SetToSeq(miss)[i], RefillSide(SetToSeq(miss)[i], cur),
                                OrderAmount, 0, PlacedIdKind(FALSE))]
           S2 == S1 \cup (n + 1 .. n + k)
       IN
       /\ n + k <= limit
       /\ orders' = orders \o fresh
       /\ expV' = expV \cup bad
       /\ wsEvents' = wsEvents \cup CancelEvents(bad, open, "system")
       /\ open' = S2
       /\ pendC' = {}
       /\ pendV' = S2
       /\ last' = Result("health_check", 0,
                         IF k > 0 THEN "refilled"
                         ELSE IF bad # {} THEN "cleaned" ELSE "synced")

HealthCheckBody(cur, remediates) ==
    HealthCheckBodyUpTo(cur, remediates, MaxOrders)

\* a pass whose first fetch finds grid_count orders: no second fetch
HealthCheck(cur) ==
    /\ batchPc = "done" /\ running /\ open # {}
    /\ HealthCheckBody(cur, HealthCheckRemediates)
    /\ UNCHANGED << extVars, configVars, auxVars, expC, cancelJobs, active, work, wsVars, batchPc,
                    flagVars, monitorVars, position, scalpVars >>

\* a pass up to its 3 s sleep: scalping is looked at once, the first fetch
\* finds orders, but not grid_count of them
HealthCheckWait ==
    /\ batchPc = "done" /\ running /\ open # {}
    /\ hcPc = "idle"
    /\ Cardinality(open) # GridCount
    /\ hcPc' = IF HealthCheckRemediates THEN "recheck" ELSE "recheck_diag"
    /\ last' = Quiet
    /\ UNCHANGED << tasks, histVars, resetVars, locked, capVars, configVars, auxVars, orders,
                    pendC, pendV, expC, expV, cancelJobs, active, open,
                    wsEvents, work, wsVars, batchPc, flagVars, monitorVars,
                    position, scalpVars >>

\* the pass after the sleep: the second fetch replaces the first, whatever
\* it holds, and the pass goes on with it
HealthCheckRecheck(cur) ==
    /\ hcPc \in {"recheck", "recheck_diag"}
    /\ HealthCheckBody(cur, hcPc = "recheck")
    /\ hcPc' = "idle"
    /\ UNCHANGED << tasks, histVars, resetVars, locked, capVars, configVars, auxVars, expC,
                    cancelJobs, active, work, wsVars, batchPc, flagVars,
                    monitorVars, position, scalpVars >>

\* ------------------------------------------------------------ specification
\* GridCoordinator.initialize
Startup == Start \/ BatchSync \/ BatchDone

\* GridCoordinator.stop called by the operator: the flags, the balance and
\* position monitors stopped, engine.cancel_all_orders, engine.stop (the
\* health-check task cancelled and awaited, cancel_all_orders once more: the
\* two cancel-alls together reach the venue or not)
Stop(venueOk) ==
    /\ running
    /\ running' = FALSE /\ paused' = FALSE
    /\ EngineCancelAll(venueOk)
    /\ tasks' = tasks \ StopCancels
    /\ last' = Result("stop", 0, "user")
    /\ UNCHANGED << histVars, modeVars, configVars, auxVars, cancelJobs, active, work,
                    wsVars, batchPc, resetting, errorCount, pauseTask,
                    monitorVars, position, scalpActive, resetPc >>

\* _price_escape_monitor testing its loop condition after a sleep: the task
\* ends once the coordinator is not running or is paused
PriceEscapeExit ==
    /\ "price_escape" \in tasks
    /\ ~(running /\ ~paused)
    /\ tasks' = tasks \ {"price_escape"}
    /\ last' = Quiet
    /\ UNCHANGED << histVars, modeVars, configVars, auxVars, orders, pendC, pendV, expC,
                    expV, cancelJobs, active, open, wsEvents, work, wsVars,
                    batchPc, flagVars, monitorVars, position, scalpVars >>

\* ---------------------------------------------------- price-follow monitor
\* the prices a check can read, around the range 1..(1 + GridCount) of
\* UnitGrid: inside it, at and just past the escape bound on either side,
\* and past the bound of a range that has followed the price once
EscapePrices == {-1 - GridCount, -1, 0, GridCount, 2 + GridCount,
                 3 + GridCount, 3 + 2 * GridCount}

\* the profit-side bound of the range: above upper + follow_distance *
\* grid_interval for a Long grid, below lower - follow_distance *
\* grid_interval for a Short grid
BeyondProfitSide(price) ==
    LET escape_threshold == gridCfg.grid_interval * FollowDistance
    IN  IF gridType = "long" THEN price > gridCfg.upper_price + escape_threshold
        ELSE price < gridCfg.lower_price - escape_threshold

\* check_price_escape answering for a price beyond either side of the range
CheckPriceEscapeBothSides(price) ==
    LET escape_threshold == gridCfg.grid_interval * FollowDistance
    IN  IF ~IsFollowMode THEN "none"
        ELSE IF price > gridCfg.upper_price + escape_threshold THEN "up"
        ELSE IF price < gridCfg.lower_price - escape_threshold THEN "down"
        ELSE "none"

\* GridConfig.check_price_escape: the direction of the escape, "none" for
\* (False, "")
CheckPriceEscape(price) ==
    LET escape_threshold == gridCfg.grid_interval * FollowDistance
    IN  IF ~IsFollowMode THEN "none"
        ELSE IF gridType = "long"
        THEN IF price > gridCfg.upper_price + escape_threshold THEN "up" ELSE "none"
        ELSE IF price < gridCfg.lower_price - escape_threshold THEN "down" ELSE "none"

\* one round of _price_escape_monitor that is due: the check time is
\* stamped, the price is fetched (the fetch may raise), and the escape timer
\* is started, run out into execute_price_follow_reset (steps 1 and 2 of
\* the workflow; the monitor awaits it, and nothing reads the timer it
\* clears afterwards in between), left running, or cleared with the price
\* lock released when its unlock condition holds
EscapeCheck(priceOk, price, unlock) ==
    /\ "price_escape" \in tasks
    /\ running /\ ~paused
    /\ resetPc = "idle"
    /\ ~(now - lastEscapeCheckTime < EscapeCheckInterval)
    /\ lastEscapeCheckTime' = now
    /\ IF ~priceOk
       THEN /\ last' = Result("escape_check", 0, "error")
            /\ UNCHANGED << priceEscapeStartTime, beyondSince, escapePrice,
                            resetting, scalpActive, resetPc, resetBy, locked >>
       ELSE /\ beyondSince' = IF BeyondProfitSide(price)
                              THEN (IF beyondSince = 0 THEN now ELSE beyondSince)
                              ELSE 0
            /\ IF CheckPriceEscape(price) # "none"
               THEN LET start == IF priceEscapeStartTime = 0 THEN now
                                 ELSE priceEscapeStartTime
                    IN  IF now - start >= FollowTimeout
                        THEN /\ priceEscapeStartTime' = 0
                             /\ escapePrice' = price
                             /\ resetting' = TRUE
                             /\ scalpActive' = FALSE
                             /\ resetPc' = "reset"
                             /\ resetBy' = "price_follow"
                             /\ last' = Result("escape_check", 0, "reset")
                             /\ UNCHANGED locked
                        ELSE /\ priceEscapeStartTime' = start
                             /\ last' = Result("escape_check", 0, "escaping")
                             /\ UNCHANGED << escapePrice, resetting, scalpActive,
                                             resetPc, resetBy, locked >>
               ELSE /\ priceEscapeStartTime' = 0
                    /\ locked' = (locked /\ ~unlock)
                    /\ last' = Result("escape_check", 0, "inside")
                    /\ UNCHANGED << escapePrice, resetting, scalpActive,
                                    resetPc, resetBy >>
    /\ UNCHANGED << tasks, histVars, verifyRound, batchBase, hcPc, capVars,
                    configVars, now, lastEventQueryTime, eventQueries, geomVars,
                    beatVars, balVars, orders, pendC, pendV, expC, expV, cancelJobs,
                    active, open, wsEvents, work, wsVars, batchPc, running,
                    paused, errorCount, pauseTask, monitorVars, position,
                    tpOrder >>

\* the venue filling orders and the engine reporting the fills to the
\* coordinator, the handler meeting the inputs I
Basic(I) ==
    \/ Startup
    \/ \E o \in Slots : VenueFill(o)
    \/ \E e \in wsEvents, in \in I : WsOrderUpdate(e, in)
    \/ \E in \in I : FillLoopStep(in)

\* the socket dropping and the engine's smart monitor falling back to REST
Fallback(I) ==
    \/ WsDisconnect
    \/ MonitorSwitchToRest
    \/ TryRestoreWebsocket
    \/ \E in \in I : RestPoll(in)

\* the scalping cycle after its activation
TakeProfit ==
    \/ \E j \in cancelJobs : CancelOrderReturn(j)
    \/ TakeProfitFilled
    \/ TakeProfitStop

\* fills, handler faults, scalping, and the operator pausing and resuming
Next == Basic(HandlerInputs) \/ TakeProfit \/ Pause \/ Resume
Spec == Init /\ [][Next]_vars

\* fills reported over the socket and by the REST fallback, handler faults
\* and the auto-pause they lead to
FallbackNext == Basic(FaultInputs) \/ Fallback(FaultInputs) \/ RunPauseTask
FallbackSpec == Init /\ [][FallbackNext]_vars

\* cancellations by the account's owner, by scalping activation, by the
\* take-profit stop and by the health checker
CancelNext ==
    \/ Basic(NominalInputs)
    \/ TakeProfit
    \/ \E o \in Slots : UserCancel(o)
    \/ \E cur \in CurrentLevels : HealthCheck(cur)
CancelSpec == Init /\ [][CancelNext]_vars

\* the operator's pause beside the engine's cancel handling and the health
\* checker
PauseNext ==
    \/ Basic(QuietInputs)
    \/ \E o \in Slots : UserCancel(o)
    \/ \E cur \in CurrentLevels : HealthCheck(cur)
    \/ Pause
    \/ Resume
PauseSpec == Init /\ [][PauseNext]_vars

\* the position monitor beside the fill path
MonitorNext == Basic(QuietInputs) \/ PollPosition
MonitorSpec == Init /\ [][MonitorNext]_vars

\* the generic reset workflow
Reset ==
    \/ \E venueOk \in BOOLEAN : ResetCancelAll(venueOk)
    \/ \E fetchOk \in BOOLEAN, venueOk \in BOOLEAN : ResetVerify(fetchOk, venueOk)
    \/ ResetRebuild
    \/ \E b \in Balances : ResetSeed(b)

\* the reset that a filled scalping take-profit order starts on a follow grid
TakeProfitResetting ==
    \/ TakeProfitReset
    \/ Reset
    \/ \E fetchOk \in BOOLEAN, b \in Balances : TakeProfitReseed(fetchOk, b)

\* a Short grid on Backpack, with a fixed range or following the price
ResetInit == InitFor(BOOLEAN) /\ venue = "backpack" /\ gridType = "short"

\* the scalping cycle ending in a stop or in a reset
ResetNext == Basic(NominalInputs) \/ TakeProfit \/ TakeProfitResetting
ResetSpec == ResetInit /\ [][ResetNext]_vars

\* a Short grid with a fixed range on Backpack
ShortBackpackInit == Init /\ venue = "backpack" /\ gridType = "short"

\* the reset the balance monitor starts at the take-profit target, up to its
\* fresh batch, beside a health checker whose pass sleeps before its second
\* fetch; the price stays where the grid was built
ResetHealthNext ==
    \/ Basic(QuietInputs)
    \/ \E b \in Balances : UpdateBalance(b)
    \/ \E venueOk \in BOOLEAN : ResetCancelAll(venueOk)
    \/ \E fetchOk \in BOOLEAN, venueOk \in BOOLEAN : ResetVerify(fetchOk, venueOk)
    \/ ResetRebuild
    \/ HealthCheckWait
    \/ \E cur \in {GridCount} : HealthCheckRecheck(cur)
ResetHealthSpec == ShortBackpackInit /\ [][ResetHealthNext]_vars

\* the operator stopping, pausing and resuming a fixed-range or follow grid
StopNext ==
    \/ Basic(QuietInputs)
    \/ \E venueOk \in BOOLEAN : Stop(venueOk)
    \/ PriceEscapeExit
    \/ Pause
    \/ Resume
StopSpec == InitFor(BOOLEAN) /\ [][StopNext]_vars

\* scalping activating and exiting: the exit's verified cancel-all and the
\* fresh batch that follows it
DeactivateNext ==
    \/ Basic(ScalpInputs)
    \/ \E j \in cancelJobs : CancelOrderReturn(j)
    \/ \E venueOk \in BOOLEAN : DeactivateCancelAll(venueOk)
    \/ \E fetchOk \in BOOLEAN, venueOk \in BOOLEAN :
          DeactivateVerify(fetchOk, venueOk)
DeactivateSpec == Init /\ [][DeactivateNext]_vars

\* a second cancel_order call for an order cancelled before, beside the
\* scalping activation's cancels
RecancelNext ==
    \/ Basic(NominalInputs)
    \/ \E j \in cancelJobs : CancelOrderReturn(j)
    \/ \E o \in Slots : CancelOrderAgain(o)
RecancelSpec == Init /\ [][RecancelNext]_vars

\* the price lock beside the fill path
LockNext == Basic(QuietInputs) \/ PriceLockArm \/ PriceLockRelease
LockSpec == Init /\ [][LockNext]_vars

\* ------------------------------------------------------------------ claims
\* handler outcomes in which a reverse order reached the venue
Placed == {"placed", "placed_scalping", "placed_exit", "placed_error"}

\* C1: every order that fills gets at most one reverse order, whichever of
\* the socket, the REST fallback and the post-batch sync report the fill and
\* under whichever of its two ids the order is pending.
ReverseOrdersOf(o) == {x \in Used : orders[x].parent = o}
ResettingDropsFills ==
    [][(resetting /\ last'.act = "fill")
         => (Len(orders') = Len(orders) /\ open' = open)]_vars
FillDroppedWhileResetting ==
    resetting /\ last.act = "fill" /\ last.out = "dropped_resetting"

\* C3: once the position monitor has detected a position anomaly and set the
\* emergency stop, the coordinator submits no further order on a fill.
EmergencyStopHaltsOrders ==
    ~(emergencyStopped /\ last.act = "fill" /\ last.out \in Placed)

\* C4: while the coordinator is paused no component submits an order or
\* remediates: not the fill handler, not the engine's re-post after a
\* cancellation, not the health checker's cleanup or refill.
PausedSubmitsNothing ==
    paused => last.out \notin Placed \cup {"reposted", "refilled", "cleaned"}

\* C5: after three consecutive failed position polls the coordinator is
\* paused, so that a fill produces no new order until a poll succeeds.
RestFailurePauseHaltsOrders ==
    ~(restFailures >= RestMaxFailures /\ last.act = "fill" /\ last.out \in Placed)

UnexpectedCancelIsReposted ==
    (last.act = "ws" /\ last.by = "user" /\ last.out \in {"cancel_logged", "reposted"})
        => /\ last.out = "reposted"
           /\ orders[Len(orders)].grid = orders[last.oid].grid
           /\ orders[Len(orders)].side = orders[last.oid].side
           /\ orders[Len(orders)].amount = orders[last.oid].amount

\* C8: a Cancelled event for an order the system cancelled itself
\* (cancel_order, cancel_all_orders, health-check cleanup) never makes the
\* engine re-post that order.
SystemCancelNeverReposted ==
    (last.act = "ws" /\ last.by = "system")
        => last.out \notin {"reposted", "repost_failed"}
SystemCancelSwallowed ==
    last.act = "ws" /\ last.by = "system" /\ last.out = "swallowed"

ScalpingVetoesExposure ==
    [][\A o \in Used :
         (/\ scalpActive /\ last'.act = "fill" /\ last'.oid = o
          /\ orders[o].side = (IF gridType = "long" THEN "buy" ELSE "sell"))
         => (Len(orders') = Len(orders) /\ open' = open)]_vars
FillVetoedByScalping ==
    /\ scalpActive /\ last.act = "fill" /\ last.out = "vetoed"
    /\ orders[last.oid].status = "filled"

\* the entries the batch sync queued for the submitted order o
QueuedFor(w, o) == {i \in DOMAIN w : w[i].oid = o}
\* the steps of _sync_order_status_after_batch: the listing, one loop turn
SyncLists == batchPc = "placed" /\ batchPc' = "syncing"
SyncTurn == work # << >> /\ work' = Tail(work)

\* C11: the immediate-fill sync after a batch submission emits exactly one
\* fill for every submitted order that is absent from the venue's open-order
\* listing, and none for an order the listing holds under its client id or
\* its venue id.
BatchSyncOnePerAbsentOrder ==
    [][/\ SyncLists =>
            \A o \in BatchOrders :
               Cardinality(QueuedFor(work', o)) = IF o \in open THEN 0 ELSE 1
       /\ SyncTurn =>
            (last'.act = "fill" /\ last'.oid = Head(work).oid)]_vars

\* C11 as amended: the sync emits exactly one fill for every submitted order
\* that is absent from the listing and still in the pending registry when the
\* sync reaches it; an absent order whose fill the socket has delivered
\* already gets none, and neither does an order the listing holds.
BatchSyncOnePerPendingAbsentOrder ==
    [][/\ SyncLists =>
            \A o \in BatchOrders :
               Cardinality(QueuedFor(work', o)) =
                   IF o \in open \/ o \notin pendC \cup pendV THEN 0 ELSE 1
       /\ SyncTurn =>
            LET o == Head(work).oid IN
            IF o \in pendC \cup pendV
            THEN last'.act = "fill" /\ last'.oid = o
                 /\ orders'[o].status = "filled"
            ELSE last' = Quiet /\ orders' = orders]_vars
BatchSyncQueuedTheAbsentOrder ==
    /\ batchPc = "syncing" /\ Len(work) = 1
    /\ work[1].oid \notin open /\ work[1].oid \in pendC \cup pendV
    /\ \E o \in BatchOrders :
          o \in open /\ orders[o].status = "pending" /\ QueuedFor(work, o) = {}

NoFillLost ==
    \A o \in matched : orders[o].status = "filled" \/ o \in pendC \cup pendV

SecondCancelIsNoOp ==
    [][\A o \in Used :
         (last'.act = "cancel" /\ last'.oid = o)
         => /\ pendC' = pendC /\ pendV' = pendV
            /\ expC' = expC /\ expV' = expV
            /\ orders'[o].status = orders[o].status]_vars

UnverifiedCancelAborts ==
    [][(resetPc = "deact_verify" /\ resetPc' = "idle"
           /\ (open # {} \/ tpOrder = "open" \/ last'.out = "aborted"))
        => /\ last'.out = "aborted"
           /\ verifyRound' <= MaxRetries
           /\ Len(orders') = Len(orders) /\ open' = open
           /\ batchPc' = batchPc]_vars
DeactivateAbortedWithOpenOrders ==
    /\ last.act = "deactivate" /\ last.out = "aborted"
    /\ verifyRound = MaxRetries /\ open # {}
    /\ resetPc = "idle" /\ batchPc = "done"

\* C13: from the verified cancel-all of a reset until its fresh batch is
\* submitted, no order rests on the venue.
NoOrdersBetweenCancelAndRebuild ==
    resetPc = "cleared" => (open = {} /\ tpOrder # "open")

\* a reset with capital re-initialization that has just completed
ResetCompleted == last.act = "reset" /\ last.out \in {"completed", "reseeded"}

TakeProfitHandled == resetPc = "tp_wait" /\ resetPc' # "tp_wait"

StopTerminatesEveryTask ==
    last.act = "stop" => tasks = {}

\* ------------------------------------------------- event-triggered queries
\* a second passes, up to the horizon
TickUntil(horizon) ==
    /\ now < horizon
    /\ now' = now + 1
    /\ last' = Quiet
    /\ UNCHANGED << extVars, configVars, geomVars, escapeVars, beatVars, balVars, lastEventQueryTime, eventQueries, orders,
                    pendC, pendV, expC, expV, cancelJobs, active, open, wsEvents,
                    work, wsVars, batchPc, flagVars, monitorVars, position,
                    scalpVars >>

Tick == TickUntil(MaxTime)

\* fault seeding: a debounce window one second short
EventQueryDueEarly(cur, lastTime) == ~(cur - lastTime < RestQueryDebounce - 1)

\* trigger_event_query's debounce test, negated: the call goes on to query
EventQueryDue(cur, lastTime) == ~(cur - lastTime < RestQueryDebounce)

\* trigger_event_query: inside the debounce window the call returns, else it
\* stamps the time and runs _query_and_update_position
TriggerEventQuery ==
    /\ IF EventQueryDue(now, lastEventQueryTime) THEN
           /\ lastEventQueryTime' = now
           /\ eventQueries' = eventQueries + 1
           /\ \/ \E new \in PositionReports, phaseOver \in BOOLEAN :
                     PollSuccess(new, phaseOver)
              \/ PollFailure
       ELSE
           /\ last' = Result("event_query", 0, "skipped")
           /\ UNCHANGED << lastEventQueryTime, eventQueries, monitorVars, position >>
    /\ UNCHANGED << extVars, configVars, geomVars, escapeVars, beatVars, balVars, now, orders, pendC, pendV, expC, expV,
                    cancelJobs, active, open, wsEvents, work, wsVars, batchPc,
                    flagVars, scalpVars >>

DebounceNext == Tick \/ TriggerEventQuery
DebounceSpec == Init /\ [][DebounceNext]_vars

\* C22: a trigger_event_query call made less than 5 s after the previous
\* event-triggered query issues no REST position fetch.
EventQueryDebounced ==
    [][(lastEventQueryTime > 0 /\ now - lastEventQueryTime < 5)
          => eventQueries' = eventQueries]_vars

\* two calls inside one window, one fetch
SecondEventQuerySkipped ==
    /\ last.out = "skipped"
    /\ eventQueries = 1
    /\ now - lastEventQueryTime < 5

\* ------------------------------------------------- GridConfig's arithmetic
GridFrame ==
    UNCHANGED << extVars, configVars, escapeVars, beatVars, balVars, now, lastEventQueryTime, eventQueries, gridCfg,
                 orders, pendC, pendV, expC, expV, cancelJobs, active, open,
                 wsEvents, work, wsVars, batchPc, flagVars, monitorVars,
                 position, scalpVars >>

\* config.get_grid_price(i) for a grid of the range
CallGetGridPrice(i) ==
    /\ call' = [fn |-> "get_grid_price", arg |-> i, ret |-> GetGridPrice(i),
                src |-> 0]
    /\ last' = Quiet
    /\ GridFrame

\* config.get_grid_index_by_price(price) for a price from the market
CallGetGridIndexByPrice(price) ==
    /\ call' = [fn |-> "get_grid_index_by_price", arg |-> price,
                ret |-> GetGridIndexByPrice(price), src |-> 0]
    /\ last' = Quiet
    /\ GridFrame

\* config.get_grid_index_by_price applied to the price get_grid_price returned
CallGetGridIndexOfGridPrice ==
    /\ call.fn = "get_grid_price"
    /\ call' = [fn |-> "get_grid_index_by_price", arg |-> call.ret,
                ret |-> GetGridIndexByPrice(call.ret), src |-> call.arg]
    /\ last' = Quiet
    /\ GridFrame

\* config.get_grid_order_amount(i) for a grid of the range
CallGetGridOrderAmount(i) ==
    /\ call' = [fn |-> "get_grid_order_amount", arg |-> i,
                ret |-> GetGridOrderAmount(i), src |-> 0]
    /\ last' = Quiet
    /\ GridFrame

GridInit == InitWith({FALSE}, GridConfigs)
GridNext ==
    \/ \E i \in 1..gridCfg.grid_count : CallGetGridPrice(i)
    \/ \E price \in 0..(MaxLower + MaxRange + 1) : CallGetGridIndexByPrice(price)
    \/ CallGetGridIndexOfGridPrice
    \/ \E i \in 1..gridCfg.grid_count : CallGetGridOrderAmount(i)
GridSpec == GridInit /\ [][GridNext]_vars

\* C23: in martingale mode the order size is largest at Grid 1 and smallest
\* at Grid grid_count, for Long and for Short grids, and shrinks by one
\* increment per grid in between.
MartingaleLargestAtGridOne ==
    (call.fn = "get_grid_order_amount" /\ gridCfg.martingale_increment > 0)
        => /\ call.ret <= GetGridOrderAmount(1)
           /\ call.ret >= GetGridOrderAmount(gridCfg.grid_count)
           /\ call.ret = GetGridOrderAmount(1)
                            - (call.arg - 1) * gridCfg.martingale_increment

\* C24: get_grid_index_by_price(get_grid_price(i)) = i for every grid type
\* and every i in [1, grid_count].
GridIndexRoundTrip ==
    (call.fn = "get_grid_index_by_price" /\ call.src # 0) => call.ret = call.src

\* the round trip of the last grid of a Short grid whose range is not a
\* whole number of intervals
ShortLastGridRoundTrip ==
    /\ call.fn = "get_grid_index_by_price" /\ call.src = gridCfg.grid_count
    /\ gridType = "short" /\ gridCfg.grid_count >= 2
    /\ gridCfg.upper_price - gridCfg.lower_price > gridCfg.grid_count * gridCfg.grid_interval

HealthCheckRefill(cur) ==
    /\ batchPc = "done" /\ running /\ open # {}
    /\ HealthCheckBodyUpTo(cur, HealthCheckRemediates, MaxOrders + 1)
    /\ UNCHANGED << extVars, configVars, auxVars, expC, cancelJobs, active, work,
                    wsVars, batchPc, flagVars, monitorVars, position,
                    scalpVars >>

RefillNext ==
    \/ Basic(QuietInputs)
    \/ \E cur \in CurrentLevels : HealthCheckRefill(cur)
RefillSpec == ShortBackpackInit /\ [][RefillNext]_vars

\* C26: a health-check pass places refill orders only when fewer than
\* grid_count orders rest on the venue, and after the refill no more than
\* grid_count orders rest there.
RefillKeepsWithinGridCount ==
    [][(last'.act = "health_check" /\ last'.out = "refilled")
          => /\ Cardinality(open) < GridCount
             /\ Cardinality(open') <= GridCount]_vars

\* the health checker's two-fetch pass beside the fill path with scalping
ScalpHealthNext ==
    \/ Basic(ScalpInputs)
    \/ \E j \in cancelJobs : CancelOrderReturn(j)
    \/ HealthCheckWait
    \/ \E cur \in CurrentLevels : HealthCheckRecheck(cur)
ScalpHealthSpec == ShortBackpackInit /\ [][ScalpHealthNext]_vars

ExpectedPosition(S) ==
    IF gridType = "long"
    THEN (GridCount - Cardinality({x \in S : orders[x].side = "buy"})) * OrderAmount
    ELSE -((GridCount - Cardinality({x \in S : orders[x].side = "sell"}))
              * OrderAmount)

\* _check_position_health: direction and size against the expectation
\* (amounts are whole order amounts, past the tolerance of a hundredth)
NeedsAdjustment(expected, actual) == expected # actual

\* the signed positions the venue may report to the health checker
ActualPositions == (-GridCount)..1

\* fault seeding: an adjustment that does not look at the order count
FinalOrderCountIgnored(S) == TRUE

\* stage 11's precondition on the re-fetched orders
FinalOrderCountCorrect(S) == Cardinality(S) = GridCount

\* perform_health_check up to stage 10, for a pass that finds scalping
\* inactive: problem orders cancelled on the venue, missing grids refilled
\* through engine.place_order
HealthCheckAdjustOrders(cur) ==
    LET S0 == open
        bad == ProblemOrders(S0)
        S1 == S0 \ bad
        miss == IF Cardinality(S0) < GridCount THEN MissingGrids(S0, S1) ELSE {}
        k == Cardinality(miss)
        n == Len(orders)
        fresh == [i \in 1..k |->
                    NewOrder(SetToSeq(miss)[i], RefillSide(SetToSeq(miss)[i], cur),
                             OrderAmount, 0, PlacedIdKind(FALSE))]
    IN
    /\ batchPc = "done" /\ running /\ open # {}
    /\ hcPc = "idle" /\ HealthCheckRemediates
    /\ n + k <= MaxOrders
    /\ orders' = orders \o fresh
    /\ expV' = expV \cup bad
    /\ wsEvents' = wsEvents \cup CancelEvents(bad, open, "system")
    /\ open' = S1 \cup (n + 1 .. n + k)
    /\ pendV' = pendV \cup (n + 1 .. n + k)
    /\ hcPc' = "final"
    /\ last' = Result("health_check", 0,
                      IF k > 0 THEN "refilled"
                      ELSE IF bad # {} THEN "cleaned" ELSE "checked")
    /\ UNCHANGED << tasks, histVars, resetVars, locked, capVars, configVars, auxVars,
                    pendC, expC, cancelJobs, active, work, wsVars, batchPc,
                    flagVars, monitorVars, position, scalpVars >>

\* stage 11 and the sync: orders and positions are fetched again (a failed
\* fetch yields empty lists, a failed position fetch no position), a needed
\* adjustment goes out as market order when the order count is grid_count,
\* and the fetched orders replace the engine's pending registry
HealthCheckFinal(fetch, actual) ==
    LET final == IF fetch = "failed" THEN {} ELSE open
        seen == IF fetch = "ok" THEN actual ELSE 0
        adjusts == /\ FinalOrderCountCorrect(final)
                   /\ NeedsAdjustment(ExpectedPosition(final), seen)
    IN
    /\ hcPc = "final"
    /\ hcPc' = "idle"
    /\ pendC' = {}
    /\ pendV' = final
    /\ last' = Result("health_check", 0, IF adjusts THEN "adjusted" ELSE "synced")
    /\ UNCHANGED << tasks, histVars, resetVars, locked, capVars, configVars, auxVars,
                    orders, expC, expV, cancelJobs, active, open, wsEvents,
                    work, wsVars, batchPc, flagVars, monitorVars, position,
                    scalpVars >>

AdjustNext ==
    \/ Basic(QuietInputs)
    \/ \E cur \in CurrentLevels : HealthCheckAdjustOrders(cur)
    \/ \E fetch \in {"ok", "no_positions", "failed"}, actual \in ActualPositions :
           HealthCheckFinal(fetch, actual)
AdjustSpec == ShortBackpackInit /\ [][AdjustNext]_vars

\* C28: within a pass the position-correcting market order is issued only
\* after the pass's cancels and refills, and only if the order count
\* fetched again after them equals grid_count.
MarketOrderAfterAdjustments ==
    [][(last'.act = "health_check" /\ last'.out = "adjusted")
          => /\ hcPc = "final" /\ hcPc' = "idle"
             /\ Cardinality(open) = GridCount
             /\ open' = open /\ Len(orders') = Len(orders)]_vars

\* a pass that refilled a grid and then corrected the position
AdjustedAfterRefill ==
    /\ last.act = "health_check" /\ last.out = "adjusted"
    /\ Len(orders) > GridCount
    /\ Cardinality(open) = GridCount

\* C29: scalping activation cancels the counter-direction orders, the sells
\* of a Long grid and the buys of a Short grid, and leaves the
\* exposure-building side resting.
ActivationCancelsCounterDirection ==
    [][(last'.act = "fill" /\ last'.out = "placed_scalping")
          => LET cancelled == (expC' \cup expV') \ (expC \cup expV)
                 building == IF gridType = "long" THEN "buy" ELSE "sell"
             IN /\ \A x \in cancelled : orders'[x].side # building
                /\ \A x \in open : orders[x].side = building => x \in open']_vars

\* a follow grid with its price-follow monitor and the reset workflow the
\* monitor invokes
FollowInit == InitFor({TRUE}) /\ venue = "backpack"
EscapeNext ==
    \/ Startup
    \/ Tick
    \/ \E priceOk \in BOOLEAN, price \in EscapePrices, unlock \in BOOLEAN :
           EscapeCheck(priceOk, price, unlock)
    \/ Reset
EscapeSpec == FollowInit /\ [][EscapeNext]_vars

\* C30: the price-follow monitor invokes a reset only at a check that finds
\* the price beyond the profit-side bound (a price beyond the adverse side
\* is not), and only when the unbroken run of such checks, which a check
\* finding the price back inside ends, began at least follow_timeout ago.
ResetOnlyAfterProfitSideTimeout ==
    [][/\ (last'.act = "escape_check" /\ last'.out = "reset")
          => /\ BeyondProfitSide(escapePrice')
             /\ beyondSince # 0
             /\ beyondSince' = beyondSince
             /\ now - beyondSince >= FollowTimeout
             /\ priceEscapeStartTime >= beyondSince
       /\ (last'.act = "escape_check" /\ beyondSince' = 0 /\ last'.out # "error")
          => priceEscapeStartTime' = 0]_vars

\* a reset invoked after a check inside the range had restarted the timer:
\* the run of checks that led to it began after the first check
ResetAfterTimerRestart ==
    /\ last.act = "escape_check" /\ last.out = "reset"
    /\ beyondSince >= 3 * EscapeCheckInterval
    /\ now - beyondSince = FollowTimeout

\* ------------------------------------------------------ heartbeat monitor
\* a smart monitor that tests the heartbeat on every venue
ChecksHeartbeatEverywhere(v) == TRUE

\* _smart_monitor_loop: the heartbeat is tested except on Lighter
ChecksHeartbeat(v) == v # "lighter"

\* a message reaches _on_order_update for an order the engine does not
\* monitor: the message time is stamped and nothing else happens; the
\* adapters of Backpack and Hyperliquid refresh the heartbeat with it
WsMessage ==
    /\ wsConnected
    /\ lastWsMessageTime' = now
    /\ lastHeartbeat' = IF venue # "lighter" THEN now ELSE lastHeartbeat
    /\ last' = Quiet
    /\ UNCHANGED << extVars, configVars, clockVars, balVars, orders, pendC, pendV,
                    expC, expV, cancelJobs, active, open, wsEvents, work, wsVars,
                    batchPc, flagVars, monitorVars, position, scalpVars >>

\* one round of the WebSocket branch of _smart_monitor_loop after its sleep
\* (the sleep sets when a round runs, not what it decides)
SmartMonitorCheck ==
    /\ wsEnabled
    /\ IF ~wsConnected
       THEN /\ wsEnabled' = FALSE
            /\ last' = Result("ws_check", 0, "disconnected")
       ELSE IF ChecksHeartbeat(venue) /\ now - lastHeartbeat > WsTimeoutThreshold
       THEN /\ wsEnabled' = FALSE
            /\ last' = Result("ws_check", 0, "heartbeat_timeout")
       ELSE /\ wsEnabled' = wsEnabled
            /\ last' = Result("ws_check", 0, "healthy")
    /\ UNCHANGED << extVars, configVars, auxVars, orders, pendC, pendV, expC,
                    expV, cancelJobs, active, open, wsEvents, work, wsConnected,
                    batchPc, flagVars, monitorVars, position, scalpVars >>

HeartbeatNext ==
    \/ Tick
    \/ WsMessage
    \/ WsDisconnect
    \/ SmartMonitorCheck
HeartbeatSpec == Init /\ [][HeartbeatNext]_vars

\* C31: the smart monitor leaves WebSocket mode only when the connection is
\* down or, on a venue other than Lighter, the heartbeat is older than the
\* threshold; on Lighter no length of silence makes it switch.
LeavesWebSocketOnlyWhenDownOrStale ==
    [][(wsEnabled /\ ~wsEnabled')
          => \/ ~wsConnected
             \/ venue # "lighter" /\ now - lastHeartbeat > WsTimeoutThreshold]_vars

\* Lighter, silent past the threshold and connected: a round of the monitor
\* has kept WebSocket mode
SilentLighterKeepsWebSocket ==
    /\ venue = "lighter" /\ wsConnected /\ wsEnabled
    /\ last.act = "ws_check" /\ last.out = "healthy"
    /\ now - lastWsMessageTime > WsTimeoutThreshold
    /\ now - lastHeartbeat > WsTimeoutThreshold

\* ------------------------------------------------- pending-order listing
\* _pending_orders.values(): the order objects in key order, an object
\* stored under two keys twice
PendingValues == SetToSeq(pendC) \o SetToSeq(pendV)

\* GridEngineImpl.get_pending_orders: the values, each object at its first
\* occurrence only
GetPendingOrders ==
    LET v == PendingValues
        firsts == {i \in 1..Len(v) : \A j \in 1..(i - 1) : v[j] # v[i]}
    IN  [k \in 1..Cardinality(firsts) |-> v[SetToSeq(firsts)[k]]]

\* C32: get_pending_orders returns every order resting on the venue, each
\* order once, and no order whose fill or cancel has been processed.
PendingEnumerationAccurate ==
    LET listed == GetPendingOrders
    IN  /\ \A i, j \in 1..Len(listed) : listed[i] = listed[j] => i = j
        /\ \A o \in open : \E i \in 1..Len(listed) : listed[i] = o
        /\ \A i \in 1..Len(listed) : orders[listed[i]].status = "pending"

\* ------------------------------------------ resets from two entry points
\* a pc inside the generic reset workflow
WorkflowRunning(pc) == pc \in {"reset", "reset_verify", "cleared", "rebuilt"}

\* BalanceMonitor.update_balance from the monitor's loop, beside a fill
\* handler or a price-follow monitor that may be inside a reset: the snapshot
\* is stored, managers without a capital are seeded, and a reached
\* take-profit target calls execute_take_profit_reset, which the monitor
\* awaits; neither update_balance nor the workflow's step 1 reads the
\* resetting flag
BalancePoll(b) ==
    /\ running /\ (batchPc = "done" \/ batchBase > 0)
    /\ balPc = "idle"
    /\ balance' = b
    /\ capital' = InitializeManagersCapital(b)
    /\ IF TakeProfitReached(capital'["take_profit"], b)
       THEN /\ resetting' = TRUE
            /\ scalpActive' = FALSE
            /\ balPc' = "reset"
            /\ last' = Result("reset", 0, "started")
       ELSE /\ last' = Quiet
            /\ UNCHANGED << resetting, scalpActive, balPc >>
    /\ UNCHANGED << tasks, histVars, resetVars, locked, hcPc, firstSnap,
                    configVars, clockVars, beatVars, balRound, orders, pendC,
                    pendV, expC, expV, cancelJobs, active, open, wsEvents,
                    work, wsVars, batchPc, running, paused, errorCount,
                    pauseTask, monitorVars, position, tpOrder, resetPc >>

\* step 3 of the balance monitor's workflow
BalanceResetCancelAll(venueOk) ==
    /\ balPc = "reset"
    /\ EngineCancelAll(venueOk)
    /\ balPc' = "reset_verify"
    /\ balRound' = 0
    /\ last' = Quiet
    /\ UNCHANGED << tasks, histVars, resetVars, locked, hcPc, capVars,
                    configVars, clockVars, beatVars, cancelJobs, active, work,
                    wsVars, batchPc, flagVars, monitorVars, position,
                    scalpActive, resetPc >>

\* step 3, one verification round
BalanceResetVerify(fetchOk, venueOk) ==
    /\ balPc = "reset_verify"
    /\ balRound' = balRound + 1
    /\ LET out == VerifyOutcomeAt(OpenOrdersCount(fetchOk), balRound) IN
       CASE out = "verified" ->
               /\ balPc' = "cleared"
               /\ last' = Result("reset", 0, "cleared")
               /\ UNCHANGED << orders, pendC, pendV, open, expC, expV,
                               wsEvents, tpOrder, resetting >>
         [] out = "aborted" ->
               /\ balPc' = "idle"
               /\ resetting' = FALSE
               /\ last' = Result("reset", 0, "aborted")
               /\ UNCHANGED << orders, pendC, pendV, open, expC, expV,
                               wsEvents, tpOrder >>
         [] OTHER ->
               /\ EngineCancelAll(venueOk)
               /\ last' = Result("reset", 0, "retry")
               /\ UNCHANGED << balPc, resetting >>
    /\ UNCHANGED << tasks, histVars, resetVars, locked, hcPc, capVars,
                    configVars, clockVars, beatVars, cancelJobs, active, work,
                    wsVars, batchPc, running, paused, errorCount, pauseTask,
                    monitorVars, position, scalpActive, resetPc >>

\* steps 4 to 7 (the price has not moved since the range was set)
BalanceResetRebuild ==
    /\ balPc = "cleared"
    /\ PlaceBatch
    /\ position' = 0
    /\ active' = {}
    /\ firstSnap' = 0
    /\ balPc' = "rebuilt"
    /\ last' = Result("reset", 0, "rebuilt")
    /\ UNCHANGED << tasks, histVars, verifyRound, resetBy, locked, hcPc, balance,
                    capital, configVars, clockVars, beatVars, balRound, expC,
                    expV, cancelJobs, wsEvents, work, wsVars, flagVars,
                    monitorVars, scalpVars >>

\* steps 8 and 9
BalanceResetSeed(b) ==
    /\ balPc = "rebuilt" /\ batchPc = "done"
    /\ balance' = b
    /\ firstSnap' = b
    /\ capital' = ReseedCapital(b)
    /\ resetting' = FALSE
    /\ balPc' = "idle"
    /\ last' = Result("reset", 0, "completed")
    /\ UNCHANGED << tasks, histVars, resetVars, locked, hcPc, configVars,
                    clockVars, beatVars, balRound, orders, pendC, pendV, expC,
                    expV, cancelJobs, active, open, wsEvents, work, wsVars,
                    batchPc, running, paused, errorCount, pauseTask,
                    monitorVars, position, scalpVars >>

\* the workflow the balance monitor awaits
BalanceReset ==
    \/ \E venueOk \in BOOLEAN : BalanceResetCancelAll(venueOk)
    \/ \E fetchOk \in BOOLEAN, venueOk \in BOOLEAN :
           BalanceResetVerify(fetchOk, venueOk)
    \/ BalanceResetRebuild
    \/ \E b \in Balances : BalanceResetSeed(b)

\* a Short follow grid on Backpack whose price-follow monitor and balance
\* monitor both reach their reset trigger: the price stays past the
\* profit-side bound of the range the grid starts with, for as long as one
\* escape takes to time out
ShortFollowInit == FollowInit /\ gridType = "short"
TwoResetsNext ==
    \/ Startup
    \/ TickUntil(EscapeCheckInterval + FollowTimeout)
    \/ EscapeCheck(TRUE, -1, FALSE)
    \/ Reset
    \/ \E b \in Balances : BalancePoll(b)
    \/ BalanceReset
TwoResetsSpec == ShortFollowInit /\ [][TwoResetsNext]_vars

\* C33: at most one reset workflow is in progress at a time, and the
\* resetting flag stays set for as long as one is running.
OneResetAtATime ==
    /\ ~(WorkflowRunning(resetPc) /\ WorkflowRunning(balPc))
    /\ (WorkflowRunning(resetPc) \/ WorkflowRunning(balPc)) => resetting

\* ------------------------------------ system cancels beside the REST poll
\* scalping activating on Backpack, each of its cancel_order calls returning
\* in its own time, beside the socket dropping and the REST fallback polling
BackpackInit == Init /\ venue = "backpack"
CancelPollNext ==
    \/ Basic(NominalInputs)
    \/ \E j \in cancelJobs : CancelOrderReturn(j)
    \/ Fallback(NominalInputs)
CancelPollSpec == BackpackInit /\ [][CancelPollNext]_vars

\* a cancel_order call for order o that the venue has carried out and that
\* has not returned yet
CancelInFlight(o) == \E j \in cancelJobs : j.oid = o /\ j.ok

\* C34: an order the system cancelled itself is never reported to the
\* coordinator as filled, not even by a REST poll that runs while the cancel
\* is in flight, and no reverse order is posted for it.
SystemCancelNeverReportedFilled ==
    [][(last'.act = "fill")
          => /\ ~CancelInFlight(last'.oid)
             /\ orders[last'.oid].status # "cancelled"]_vars

\* ------------------------------------- the expected-cancellations set
\* a cancel the system issued for order o is outstanding: the call has not
\* returned, or the venue's Cancelled event for it is still on its way
CancelOutstanding(o) ==
    \/ \E j \in cancelJobs : j.oid = o
    \/ \E e \in wsEvents : e.kind = "cancelled" /\ e.oid = o /\ e.by = "system"

\* C35: an id is in the expected-cancellations set only while a cancel the
\* system issued for it is outstanding; the Cancelled event and the failure
\* of the cancel request both take it out.
ExpectedOnlyWhileCancelOutstanding ==
    \A o \in expC \cup expV : CancelOutstanding(o)

\* ------------------------------- price-follow monitor across pause/resume
\* C36: on a follow grid the price-escape monitor runs for as long as the
\* coordinator is running: once the operator has resumed a paused grid the
\* monitor is there to detect the next escape.
EscapeMonitorRunsWhileRunning ==
    (IsFollowMode /\ running /\ ~paused) => "price_escape" \in tasks

\* ------------------------------------------ the auto-pause and later fills
\* a Lighter grid whose handler raises, polled by REST after the socket
\* dropped; the poll's burst of callbacks may go one order object past
\* MaxOrders, so that a fill after the fifth error can still be answered
LighterInit == Init /\ venue = "lighter"
BurstNext ==
    \/ Basic(FaultInputs)
    \/ WsDisconnect
    \/ MonitorSwitchToRest
    \/ TryRestoreWebsocket
    \/ \E in \in FaultInputs : RestPollUpTo(in, MaxOrders + 1)
    \/ RunPauseTask
BurstSpec == LighterInit /\ [][BurstNext]_vars

Stopped == batchPc # "none" /\ ~running

\* C38: once stop() has returned no component submits another order, also
\* when a fill or a cancel event of the time before arrives afterwards.
StoppedSubmitsNothing ==
    [][Stopped => Len(orders') = Len(orders)]_vars

TakeProfitNext ==
    \/ Basic(TakeProfitInputs)
    \/ \E j \in cancelJobs : CancelOrderReturn(j)
SystemStep ==
    \/ Startup
    \/ \E e \in wsEvents, in \in TakeProfitInputs : WsOrderUpdate(e, in)
    \/ \E in \in TakeProfitInputs : FillLoopStep(in)
    \/ \E j \in cancelJobs : CancelOrderReturn(j)
TakeProfitSpec ==
    BackpackInit /\ [][TakeProfitNext]_vars /\ WF_vars(SystemStep)

\* C40: whenever scalping is active with a position, a take-profit order for
\* it is eventually resting on the venue: a failed placement does not leave
\* scalping active without one for good.
ScalpingGetsTakeProfit ==
    (scalpActive /\ position # 0) ~> (tpOrder = "open")
====
